---- MODULE Spec2Model ----
(***************************************************************************)
(* A model of the YWC reporting portal: the standardized data collection   *)
(* engine (src/src/utils/dataEngine.js) and the session state machine of   *)
(* the App component (src/unnamed/part_000, which imports the engine).     *)
(*                                                                         *)
(* Texts are TLA+ strings, handled character by character (Len, SubSeq,    *)
(* Head, Tail and \o on strings), so lower-casing, substring search,       *)
(* trimming and splitting are computed as the JavaScript computes them.    *)
(* The checkbox glyph U+2610 is written "#" (one UTF-16 unit in the code,  *)
(* one character here); a line feed is written "\n".                       *)
(***************************************************************************)
EXTENDS Integers, Sequences, FiniteSets, TLC

(***************************************************************************)
(* JavaScript values.  A raw value is a number (an integer or NaN), a      *)
(* string, a boolean, null or undefined; `kind` keeps them apart, so that  *)
(* 0, "", "0" and false differ.                                            *)
(***************************************************************************)
Num(n) == [kind |-> "number", num |-> n, str |-> ""]
NaN == [kind |-> "number", num |-> 0, str |-> "NaN"]
Str(s) == [kind |-> "string", num |-> 0, str |-> s]
Bool(b) == [kind |-> "boolean", num |-> IF b THEN 1 ELSE 0, str |-> ""]
Undefined == [kind |-> "undefined", num |-> 0, str |-> ""]
Null == [kind |-> "null", num |-> 0, str |-> ""]

\* `v != null` (loose): neither null nor undefined.
NotNullish(v) == v.kind \notin {"undefined", "null"}

\* JavaScript truthiness of a raw value (used by `x || y`).
Truthy(v) ==
  CASE v.kind = "number" -> v.num # 0 /\ v.str # "NaN"
    [] v.kind = "boolean" -> v.num = 1
    [] v.kind = "string" -> v.str # ""
    [] OTHER -> FALSE

\* store[key] of an object holding raw values
Lookup(store, key) == IF key \in DOMAIN store THEN store[key] ELSE Undefined

(***************************************************************************)
(* String primitives.                                                      *)
(***************************************************************************)
GLYPH == "#"

LowerChar(c) ==
  CASE c = "A" -> "a" [] c = "B" -> "b" [] c = "C" -> "c" [] c = "D" -> "d"
    [] c = "E" -> "e" [] c = "F" -> "f" [] c = "G" -> "g" [] c = "H" -> "h"
    [] c = "I" -> "i" [] c = "J" -> "j" [] c = "K" -> "k" [] c = "L" -> "l"
    [] c = "M" -> "m" [] c = "N" -> "n" [] c = "O" -> "o" [] c = "P" -> "p"
    [] c = "Q" -> "q" [] c = "R" -> "r" [] c = "S" -> "s" [] c = "T" -> "t"
    [] c = "U" -> "u" [] c = "V" -> "v" [] c = "W" -> "w" [] c = "X" -> "x"
    [] c = "Y" -> "y" [] c = "Z" -> "z" [] OTHER -> c

UpperChar(c) ==
  CASE c = "a" -> "A" [] c = "b" -> "B" [] c = "c" -> "C" [] c = "d" -> "D"
    [] c = "e" -> "E" [] c = "f" -> "F" [] c = "g" -> "G" [] c = "h" -> "H"
    [] c = "i" -> "I" [] c = "j" -> "J" [] c = "k" -> "K" [] c = "l" -> "L"
    [] c = "m" -> "M" [] c = "n" -> "N" [] c = "o" -> "O" [] c = "p" -> "P"
    [] c = "q" -> "Q" [] c = "r" -> "R" [] c = "s" -> "S" [] c = "t" -> "T"
    [] c = "u" -> "U" [] c = "v" -> "V" [] c = "w" -> "W" [] c = "x" -> "X"
    [] c = "y" -> "Y" [] c = "z" -> "Z" [] OTHER -> c

\* the concatenation f[lo] \o ... \o f[hi] of strings or of sequences,
\* halving the range so that the evaluation stays shallow
RECURSIVE ConcatRange(_, _, _, _)
ConcatRange(f, lo, hi, empty) ==
  IF lo > hi THEN empty
  ELSE IF lo = hi THEN f[lo]
  ELSE LET mid == (lo + hi) \div 2
       IN ConcatRange(f, lo, mid, empty) \o ConcatRange(f, mid + 1, hi, empty)

CharAt(s, i) == SubSeq(s, i, i)

\* String.prototype.toLowerCase / toUpperCase
ToLowerCase(s) ==
  ConcatRange([i \in 1..Len(s) |-> LowerChar(CharAt(s, i))], 1, Len(s), "")

ToUpperCase(s) ==
  ConcatRange([i \in 1..Len(s) |-> UpperChar(CharAt(s, i))], 1, Len(s), "")

\* String.prototype.includes
Includes(s, sub) ==
  \E i \in 1..(Len(s) - Len(sub) + 1) : SubSeq(s, i, i + Len(sub) - 1) = sub

\* String.prototype.startsWith
StartsWith(s, pre) == Len(s) >= Len(pre) /\ SubSeq(s, 1, Len(pre)) = pre

\* the regular expression class \s, over the characters the model uses
IsSpace(c) == c \in {" ", "\n", "\t"}

\* The least and the greatest element of a non-empty set of integers
Min(S) == CHOOSE x \in S : \A y \in S : x <= y
Max(S) == CHOOSE x \in S : \A y \in S : x >= y

\* String.prototype.trimStart / trimEnd / trim
TrimStart(s) ==
  LET solid == {i \in 1..Len(s) : ~IsSpace(CharAt(s, i))}
  IN IF solid = {} THEN "" ELSE SubSeq(s, Min(solid), Len(s))

TrimEnd(s) ==
  LET solid == {i \in 1..Len(s) : ~IsSpace(CharAt(s, i))}
  IN IF solid = {} THEN "" ELSE SubSeq(s, 1, Max(solid))

Trim(s) == TrimEnd(TrimStart(s))

\* String.prototype.substring(n) (n is zero-based)
SubstringFrom(s, n) == SubSeq(s, n + 1, Len(s))

\* the elements of a finite set of integers in increasing order
Sorted(S) ==
  [k \in 1..Cardinality(S) |->
     CHOOSE x \in S : Cardinality({y \in S : y < x}) = k - 1]

\* String.prototype.split(sep) for a one-character separator
Split(s, sep) ==
  LET cuts == Sorted({i \in 1..Len(s) : CharAt(s, i) = sep})
      from(k) == IF k = 1 THEN 1 ELSE cuts[k - 1] + 1
      to(k) == IF k = Len(cuts) + 1 THEN Len(s) ELSE cuts[k] - 1
  IN [k \in 1..(Len(cuts) + 1) |-> SubSeq(s, from(k), to(k))]

\* Array.prototype.join
Join(parts, sep) ==
  ConcatRange([i \in 1..Len(parts) |->
                 IF i = 1 THEN parts[i] ELSE sep \o parts[i]], 1, Len(parts), "")

\* the concatenation of a sequence of sequences
Flatten(ss) == ConcatRange(ss, 1, Len(ss), <<>>)

\* Math.round of the exact quotient n/d, for d > 0 (round half towards +infinity)
RoundDiv(n, d) == (2 * n + d) \div (2 * d)

(***************************************************************************)
(* FieldTypes and StandardOptions (dataEngine.js 7-109).                   *)
(***************************************************************************)
NUMBER == "number"
CURRENCY == "currency"
PERCENTAGE == "percentage"
SCALE == "scale"
RADIO == "radio"
CHECKBOX == "checkbox"
DROPDOWN == "dropdown"
CALCULATED == "calculated"
RATIO == "ratio"
TEXT_SHORT == "text_short"
DATE == "date"
PERIOD == "period"

FieldTypes ==
  {NUMBER, CURRENCY, PERCENTAGE, SCALE, RADIO, CHECKBOX, DROPDOWN,
   CALCULATED, RATIO, TEXT_SHORT, DATE, PERIOD}

Opt(v, l) == [value |-> v, label |-> l]

difficulty ==
  << Opt(Str("not_difficult"), "Not difficult"),
     Opt(Str("somewhat_difficult"), "Somewhat difficult"),
     Opt(Str("very_difficult"), "Very difficult"),
     Opt(Str("not_applicable"), "Not applicable") >>

yesNoNA ==
  << Opt(Str("yes"), "Yes"), Opt(Str("no"), "No"),
     Opt(Str("not_applicable"), "Not applicable") >>

yesNo == << Opt(Str("yes"), "Yes"), Opt(Str("no"), "No") >>

satisfactionScale ==
  << Opt(Num(1), "Very Dissatisfied"), Opt(Num(2), "Dissatisfied"),
     Opt(Num(3), "Neutral"), Opt(Num(4), "Satisfied"),
     Opt(Num(5), "Very Satisfied") >>

employeeBenefits ==
  << Opt(Str("health_dental"), "Health and/or dental insurance"),
     Opt(Str("eap"), "Employee Assistance Program (EAP)"),
     Opt(Str("mental_health_days"), "Paid mental health or self-care days"),
     Opt(Str("rrsp_matching"), "RRSP matching or retirement savings program"),
     Opt(Str("professional_development"), "Paid professional development time or funds"),
     Opt(Str("flexible_schedule"), "Flexible work schedule"),
     Opt(Str("remote_work"), "Remote work options"),
     Opt(Str("wellness_program"), "Wellness program or gym membership"),
     Opt(Str("extended_leave"), "Extended parental/family leave"),
     Opt(Str("other"), "Other (specify)") >>

boardCompensation ==
  << Opt(Str("per_meeting"), "Per-meeting stipend"),
     Opt(Str("monthly"), "Monthly honorarium"),
     Opt(Str("annual"), "Annual honorarium"),
     Opt(Str("travel"), "Travel reimbursement"),
     Opt(Str("childcare"), "Childcare reimbursement"),
     Opt(Str("gifts"), "Gift cards or tokens"),
     Opt(Str("other"), "Other (specify)") >>

collaborationTypes ==
  << Opt(Str("co_programming"), "Co-delivered programming or services"),
     Opt(Str("joint_funding"), "Joint funding proposals or reports"),
     Opt(Str("shared_advocacy"), "Shared advocacy or policy initiatives"),
     Opt(Str("events"), "Attended shared events or working groups"),
     Opt(Str("coordination"), "Regular coordination or planning"),
     Opt(Str("resource_sharing"), "Resource sharing (space, staff, tools)"),
     Opt(Str("other"), "Other (specify)") >>

(***************************************************************************)
(* createFieldConfig and its text extraction helpers (dataEngine.js        *)
(* 191-489).  A validator is named by its key in ValidationRules, a        *)
(* formula by the key of its calculation.                                  *)
(***************************************************************************)
EmptyRec == [k \in {} |-> 0]

\* /\s+/g -> '_' : every run of white space becomes one underscore
ReplaceSpaceRuns(s) ==
  ConcatRange([i \in 1..Len(s) |->
     IF ~IsSpace(CharAt(s, i)) THEN CharAt(s, i)
     ELSE IF i > 1 /\ IsSpace(CharAt(s, i - 1)) THEN "" ELSE "_"], 1, Len(s), "")

IsLowerAlnum(c) ==
  c \in {"a","b","c","d","e","f","g","h","i","j","k","l","m","n","o","p","q",
         "r","s","t","u","v","w","x","y","z","0","1","2","3","4","5","6","7",
         "8","9"}

\* .replace(/[^a-z0-9]/g, '_').replace(/_+/g, '_')
SlugRuns(s) ==
  ConcatRange([i \in 1..Len(s) |->
     IF IsLowerAlnum(CharAt(s, i)) THEN CharAt(s, i)
     ELSE IF i > 1 /\ ~IsLowerAlnum(CharAt(s, i - 1)) THEN "" ELSE "_"], 1, Len(s), "")

\* one line of extractCheckboxOptions' loop: the options it pushes
OptionOfLine(line) ==
  LET trimmedLine == Trim(line)
      optionText == Trim(SubstringFrom(trimmedLine, 2))
  IN IF StartsWith(trimmedLine, GLYPH)
        /\ optionText # "" /\ optionText # "Other (please specify)"
     THEN << Opt(Str(ReplaceSpaceRuns(ToLowerCase(optionText))), optionText) >>
     ELSE <<>>

extractCheckboxOptions(measurementMethod) ==
  IF measurementMethod = "" THEN <<>>
  ELSE LET lines == Split(measurementMethod, "\n")
           options == Flatten([i \in 1..Len(lines) |-> OptionOfLine(lines[i])])
       IN IF Len(options) > 0
          THEN Append(options, Opt(Str("other"), "Other (specify)"))
          ELSE options

\* the position of the first occurrence of sub in s at or after from, 0 if none
IndexOfFrom(s, sub, from) ==
  LET hits == {i \in from..(Len(s) - Len(sub) + 1) : SubSeq(s, i, i + Len(sub) - 1) = sub}
  IN IF hits = {} THEN 0 ELSE Min(hits)

\* /^([^?]*\?)\s*\(Yes\/No\)/
extractYesNoQuestion(method) ==
  LET q == IndexOfFrom(method, "?", 1)
  IN IF q > 0 /\ StartsWith(TrimStart(SubstringFrom(method, q)), "(Yes/No)")
     THEN SubSeq(method, 1, q)
     ELSE "Does your organization have this?"

\* /Which of the following[^?]*\?|What[^?]*\?/ : the leftmost match
extractCheckboxQuestion(method) ==
  LET starts == {i \in 1..Len(method) :
                   /\ \/ StartsWith(SubstringFrom(method, i - 1), "Which of the following")
                      \/ StartsWith(SubstringFrom(method, i - 1), "What")
                   /\ IndexOfFrom(method, "?", i) > 0}
  IN IF starts = {} THEN "Which of the following apply?"
     ELSE LET i == Min(starts)
          IN SubSeq(method, i, IndexOfFrom(method, "?", i))

\* one match of /GLYPH\s*([^GLYPH]+?)(?=GLYPH|$)/g : the text between two glyphs
OptionOfSegment(segment) ==
  LET optionText == Trim(segment)
  IN IF optionText # "" /\ ~Includes(optionText, "Other (please specify)")
     THEN << Opt(Str(SlugRuns(ToLowerCase(optionText))), optionText) >>
     ELSE <<>>

extractCheckboxOptionsFromMethod(method) ==
  LET standardOptions == extractCheckboxOptions(method)
      segments == Tail(Split(method, GLYPH))
      found == Flatten([i \in 1..Len(segments) |-> OptionOfSegment(segments[i])])
      options == IF Len(found) > 0
                 THEN Append(found, Opt(Str("other"), "Other (specify)"))
                 ELSE found
  IN IF Len(standardOptions) > 0 THEN standardOptions
     ELSE IF Len(options) = 0
             /\ (Includes(ToLowerCase(method), "benefit")
                 \/ Includes(ToLowerCase(method), "wellness"))
     THEN employeeBenefits
     ELSE IF Len(options) > 0 THEN options ELSE collaborationTypes

TurnoverConfig ==
  [type |-> "calculated_group",
   fields |-> <<
     [key |-> "staffAtStart", type |-> NUMBER,
      label |-> "Staff count at period start",
      validation |-> <<"required", "staffCount">>, placeholder |-> "e.g., 12"],
     [key |-> "staffAtEnd", type |-> NUMBER,
      label |-> "Staff count at period end",
      validation |-> <<"required", "staffCount">>, placeholder |-> "e.g., 10"],
     [key |-> "staffLeft", type |-> NUMBER,
      label |-> "Number of staff who left during period",
      validation |-> <<"required", "staffCount">>, placeholder |-> "e.g., 3"] >>,
   calculations |-> <<
     [key |-> "averageStaff", formula |-> "averageStaff",
      label |-> "Average staff count"],
     [key |-> "turnoverRate", formula |-> "turnoverRate",
      label |-> "Turnover rate (%)", format |-> "percentage"] >>]

FundingConfig ==
  [type |-> "calculated_group",
   fields |-> <<
     [key |-> "coreFunding", type |-> CURRENCY,
      label |-> "Total core funding ($)",
      validation |-> <<"required", "currency">>, placeholder |-> "e.g., 150000"],
     [key |-> "projectFunding", type |-> CURRENCY,
      label |-> "Total project/program-specific funding ($)",
      validation |-> <<"required", "currency">>, placeholder |-> "e.g., 75000"] >>,
   calculations |-> <<
     [key |-> "totalFunding", formula |-> "totalFunding",
      label |-> "Total funding ($)", format |-> "currency"],
     [key |-> "corePercentage", formula |-> "corePercentage",
      label |-> "Core funding percentage (%)", format |-> "percentage"],
     [key |-> "fundingRatio", formula |-> "fundingRatio",
      label |-> "Funding leverage ratio", format |-> "ratio"] >>]

MultiPartConfig(method) ==
  [type |-> "multi_part",
   fields |-> <<
     [key |-> "hasProgram", type |-> RADIO,
      label |-> extractYesNoQuestion(method),
      options |-> yesNo, validation |-> <<"required">>],
     [key |-> "details", type |-> CHECKBOX,
      label |-> extractCheckboxQuestion(method),
      options |-> extractCheckboxOptionsFromMethod(method),
      validation |-> <<"required">>,
      dependsOn |-> "hasProgram", dependsOnValue |-> "yes"] >>]

\* the condition of the multi-part branch (line 282), on the lower-cased method
IsMultiPart(method) ==
  Includes(method, "(Yes/No)") /\ Includes(method, "Check all that apply")

\* a variant of the fallback that returns the bare short-text type
FallbackConfig_bare ==
  [type |-> TEXT_SHORT, validation |-> <<"required">>,
   placeholder |-> "Brief response"]

\* the fallback config (lines 400-406)
FallbackConfig ==
  [type |-> TEXT_SHORT, maxLength |-> 100,
   validation |-> <<"required">>,
   placeholder |-> "Brief response (max 100 characters)",
   warning |-> "Consider converting this to structured data for better comparability"]

createFieldConfig(indicatorName, measurementMethod) ==
  LET name == ToLowerCase(indicatorName)
      method == ToLowerCase(measurementMethod)
      options == extractCheckboxOptions(measurementMethod)
  IN
  IF Includes(name, "turnover") \/ Includes(name, "retention") THEN TurnoverConfig
  ELSE IF Includes(name, "funding")
          /\ (Includes(name, "ratio") \/ Includes(name, "core")) THEN FundingConfig
  ELSE IF IsMultiPart(method) THEN MultiPartConfig(method)
  ELSE IF (Includes(name, "wellness") \/ Includes(name, "benefit"))
          /\ Includes(method, "Check all that apply")
  THEN [type |-> CHECKBOX, options |-> employeeBenefits,
        validation |-> <<"required">>]
  ELSE IF Includes(method, "yes/no") \/ Includes(method, "(yes / no)")
          \/ Includes(method, "(Yes/No)")
  THEN [type |-> RADIO, options |-> yesNo, validation |-> <<"required">>]
  ELSE IF Includes(method, "check all that apply") \/ Includes(method, GLYPH)
  THEN [type |-> CHECKBOX,
        options |-> IF Len(options) > 0 THEN options ELSE collaborationTypes,
        validation |-> <<"required">>]
  ELSE IF Includes(method, "difficult") /\ Includes(method, "options:")
  THEN [type |-> RADIO, options |-> difficulty, validation |-> <<"required">>]
  ELSE IF Includes(name, "satisfaction") \/ Includes(method, "satisfied")
  THEN [type |-> SCALE, scale |-> satisfactionScale,
        validation |-> <<"required">>]
  ELSE IF Includes(name, "board") /\ Includes(name, "compensation")
  THEN [type |-> CHECKBOX, options |-> boardCompensation,
        validation |-> <<"required">>]
  ELSE IF Includes(name, "collaboration") \/ Includes(name, "coalition")
  THEN (IF Includes(method, "how many")
        THEN [type |-> NUMBER, label |-> "Number of meetings/events attended",
              validation |-> <<"required", "staffCount">>,
              placeholder |-> "e.g., 4"]
        ELSE [type |-> CHECKBOX, options |-> collaborationTypes,
              validation |-> <<"required">>])
  ELSE IF Includes(method, "how many") \/ Includes(method, "number of")
  THEN [type |-> NUMBER, validation |-> <<"required", "staffCount">>,
        placeholder |-> "Enter number"]
  ELSE IF Includes(method, "percentage") \/ Includes(method, "%")
  THEN [type |-> PERCENTAGE, validation |-> <<"required", "percentage">>,
        placeholder |-> "e.g., 25"]
  ELSE FallbackConfig

(***************************************************************************)
(* JavaScript arithmetic.  The operators / * + work on IEEE 754 doubles:   *)
(* each result is the exact result rounded to 53 significant bits, ties to *)
(* even.  A double is kept as a sign, a natural number written in binary   *)
(* (most significant bit first, no leading zero, at most 53 bits; zero is  *)
(* the empty sequence) and a binary exponent: (-1)^neg * m * 2^e.  The     *)
(* digit operators work on halves of a range, the lower-order half first   *)
(* (its carry or remainder is tested before the other half is entered), so *)
(* that the evaluation stays shallow.                                      *)
(***************************************************************************)
MantissaBits == 53

RECURSIVE BitsOf(_)
\* the binary digits of a natural number below 2^31
BitsOf(n) == IF n = 0 THEN <<>> ELSE Append(BitsOf(n \div 2), n % 2)

RECURSIVE NatOf(_)
\* the natural number of a short digit sequence
NatOf(bits) ==
  IF bits = <<>> THEN 0
  ELSE 2 * NatOf(SubSeq(bits, 1, Len(bits) - 1)) + bits[Len(bits)]

\* the digit of weight 2^j
BitAt(bits, j) == IF j < Len(bits) THEN bits[Len(bits) - j] ELSE 0

StripZeros(bits) ==
  LET ones == {i \in 1..Len(bits) : bits[i] = 1}
  IN IF ones = {} THEN <<>> ELSE SubSeq(bits, Min(ones), Len(bits))

Zeros(n) == [i \in 1..n |-> 0]

RECURSIVE MulRange(_, _, _, _, _)
\* the digits lo..hi of bits, times k, plus the carry into the digit hi:
\* the digits of the product in that range and the carry out of it
MulRange(bits, k, lo, hi, carry) ==
  IF lo > hi THEN [d |-> <<>>, c |-> carry]
  ELSE IF lo = hi
  THEN [d |-> << (bits[lo] * k + carry) % 2 >>, c |-> (bits[lo] * k + carry) \div 2]
  ELSE LET mid == (lo + hi) \div 2
           low == MulRange(bits, k, mid + 1, hi, carry)
           high == MulRange(bits, k, lo, mid, low.c)
       IN IF low.c >= 0 THEN [d |-> high.d \o low.d, c |-> high.c]
          ELSE [d |-> <<>>, c |-> 0]

\* bits * k for a natural number k below 2^30
MulSmall(bits, k) ==
  LET p == MulRange(bits, k, 1, Len(bits), 0)
  IN StripZeros(BitsOf(p.c) \o p.d)

RECURSIVE DivRange(_, _, _, _, _)
\* long division of the digits lo..hi by k, given the remainder r left by
\* the digits before lo: the quotient digits and the remainder
DivRange(bits, k, lo, hi, r) ==
  IF lo > hi THEN [q |-> <<>>, r |-> r]
  ELSE IF lo = hi
  THEN [q |-> << (2 * r + bits[lo]) \div k >>, r |-> (2 * r + bits[lo]) % k]
  ELSE LET mid == (lo + hi) \div 2
           high == DivRange(bits, k, lo, mid, r)
           low == DivRange(bits, k, mid + 1, hi, high.r)
       IN IF high.r >= 0 THEN [q |-> high.q \o low.q, r |-> low.r]
          ELSE [q |-> <<>>, r |-> 0]

\* bits divided by k, 0 < k < 2^30
DivSmall(bits, k) ==
  LET d == DivRange(bits, k, 1, Len(bits), 0)
  IN [q |-> StripZeros(d.q), r |-> d.r]

RECURSIVE AddRange(_, _, _, _, _)
\* the digits of weight 2^lo..2^hi of x + y, given the carry into 2^lo
AddRange(x, y, lo, hi, carry) ==
  IF lo > hi THEN [d |-> <<>>, c |-> carry]
  ELSE IF lo = hi
  THEN [d |-> << (BitAt(x, lo) + BitAt(y, lo) + carry) % 2 >>,
        c |-> (BitAt(x, lo) + BitAt(y, lo) + carry) \div 2]
  ELSE LET mid == (lo + hi) \div 2
           low == AddRange(x, y, lo, mid, carry)
           high == AddRange(x, y, mid + 1, hi, low.c)
       IN IF low.c >= 0 THEN [d |-> high.d \o low.d, c |-> high.c]
          ELSE [d |-> <<>>, c |-> 0]

AddBits(x, y) ==
  LET s == AddRange(x, y, 0, Max({Len(x), Len(y)}) - 1, 0)
  IN StripZeros(BitsOf(s.c) \o s.d)

Double(neg, m, e) == [neg |-> neg, m |-> m, e |-> e]

\* the double nearest to (bits + a positive part below one unit, when
\* sticky) * 2^e: round to nearest, ties to even
RoundToDouble(neg, bits, e, sticky) ==
  IF Len(bits) <= MantissaBits THEN Double(neg /\ bits # <<>>, bits, e)
  ELSE
    LET d == Len(bits) - MantissaBits
        keep == SubSeq(bits, 1, MantissaBits)
        guard == bits[MantissaBits + 1]
        rest == sticky \/ \E i \in (MantissaBits + 2)..Len(bits) : bits[i] = 1
        up == guard = 1 /\ (rest \/ keep[MantissaBits] = 1)
        m == IF up THEN AddBits(keep, <<1>>) ELSE keep
    IN IF Len(m) > MantissaBits
       THEN Double(neg, SubSeq(m, 1, MantissaBits), e + d + 1)
       ELSE Double(neg, m, e + d)

\* an integer as a double (exact below 2^31)
DoubleOf(n) == Double(n < 0, BitsOf(IF n < 0 THEN -n ELSE n), 0)

\* x / k for a double x and a non-zero integer k
DivDouble(x, k) ==
  LET a == IF k < 0 THEN -k ELSE k
      shift == MantissaBits + 2 + Len(BitsOf(a))
      d == DivSmall(x.m \o Zeros(shift), a)
  IN IF x.m = <<>> THEN Double(FALSE, <<>>, 0)
     ELSE RoundToDouble(x.neg # (k < 0), d.q, x.e - shift, d.r # 0)

\* x * k for a double x and an integer k
MulDouble(x, k) ==
  LET a == IF k < 0 THEN -k ELSE k
  IN IF x.m = <<>> \/ k = 0 THEN Double(FALSE, <<>>, 0)
     ELSE RoundToDouble(x.neg # (k < 0), MulSmall(x.m, a), x.e, FALSE)

\* x + y for doubles of the same sign
AddDouble(x, y) ==
  IF x.m = <<>> THEN y
  ELSE IF y.m = <<>> THEN x
  ELSE LET e == Min({x.e, y.e})
       IN RoundToDouble(x.neg, AddBits(x.m \o Zeros(x.e - e), y.m \o Zeros(y.e - e)),
                        e, FALSE)

\* Math.round(x): the integer nearest to x, a half going up (toward
\* positive infinity)
MathRound(x) ==
  IF x.m = <<>> THEN 0
  ELSE IF x.e >= 0 THEN (IF x.neg THEN -1 ELSE 1) * NatOf(x.m \o Zeros(x.e))
  ELSE LET f == -x.e
           whole == IF Len(x.m) > f THEN NatOf(SubSeq(x.m, 1, Len(x.m) - f)) ELSE 0
           half == BitAt(x.m, f - 1) = 1
           below == \E j \in 0..(f - 2) : BitAt(x.m, j) = 1
       IN IF x.neg THEN -(whole + (IF half /\ below THEN 1 ELSE 0))
          ELSE whole + (IF half THEN 1 ELSE 0)

\* Math.round((n / d) * 100) for integers n and d, d # 0
ComputePercent(n, d) == MathRound(MulDouble(DivDouble(DoubleOf(n), d), 100))

\* the same, computed once for the small operands
PercentTableSize == 8

PercentTable ==
  [d \in 1..PercentTableSize |-> [n \in 0..PercentTableSize |-> ComputePercent(n, d)]]

RoundPercent(n, d) ==
  IF d \in 1..PercentTableSize /\ n \in 0..PercentTableSize
  THEN PercentTable[d][n] ELSE ComputePercent(n, d)

(***************************************************************************)
(* Calculations (dataEngine.js 114-144) and the formulas of the calculated *)
(* groups (225, 230, 261, 267, 273).  A number is an integer, NaN, or a    *)
(* count of hundredths (str = "/100"); quotients are computed exactly.     *)
(***************************************************************************)
IsNumber(v) == v.kind = "number" /\ v.str = ""

\* h / 100
Hundredths(h) ==
  IF h % 100 = 0 THEN Num(h \div 100)
  ELSE [kind |-> "number", num |-> h, str |-> "/100"]

IsDigit(c) == c \in {"0", "1", "2", "3", "4", "5", "6", "7", "8", "9"}

DigitValue(c) ==
  CASE c = "0" -> 0 [] c = "1" -> 1 [] c = "2" -> 2 [] c = "3" -> 3 [] c = "4" -> 4
    [] c = "5" -> 5 [] c = "6" -> 6 [] c = "7" -> 7 [] c = "8" -> 8 [] c = "9" -> 9

RECURSIVE DecimalOf(_)
\* the number a string of decimal digits writes
DecimalOf(s) ==
  IF Len(s) = 0 THEN 0
  ELSE 10 * DecimalOf(SubSeq(s, 1, Len(s) - 1)) + DigitValue(CharAt(s, Len(s)))

\* Number(s) of a string: white space is 0, an optionally signed run of
\* digits its number, any other text NaN
StrToNumber(s) ==
  LET t == Trim(s)
      digits == IF StartsWith(t, "-") \/ StartsWith(t, "+") THEN SubstringFrom(t, 1) ELSE t
  IN IF t = "" THEN Num(0)
     ELSE IF digits # "" /\ \A i \in 1..Len(digits) : IsDigit(CharAt(digits, i))
     THEN Num(IF StartsWith(t, "-") THEN -DecimalOf(digits) ELSE DecimalOf(digits))
     ELSE NaN

\* Number(v) of an operand of an arithmetic or relational operator
Operand(v) ==
  IF v.kind = "number" THEN v
  ELSE IF v.kind = "null" THEN Num(0)
  ELSE IF v.kind = "boolean" THEN Num(v.num)
  ELSE IF v.kind = "string" THEN StrToNumber(v.str)
  ELSE NaN

\* Math.round((n / d) * 100) for truthy d
RatePercent(n, d) ==
  IF IsNumber(Operand(n)) /\ IsNumber(Operand(d))
  THEN Num(RoundPercent(Operand(n).num, Operand(d).num)) ELSE NaN

turnoverRate(staffLeft, averageStaff) ==
  IF ~Truthy(averageStaff) THEN Num(0) ELSE RatePercent(staffLeft, averageStaff)

fundingRatio(nonCore, core) ==
  IF ~Truthy(core) THEN Num(0)
  ELSE IF IsNumber(RatePercent(nonCore, core))
  THEN Hundredths(RatePercent(nonCore, core).num) ELSE NaN

corePercentage(core, total) ==
  IF ~Truthy(total) THEN Num(0) ELSE RatePercent(core, total)

\* a - b
Minus(a, b) ==
  IF IsNumber(Operand(a)) /\ IsNumber(Operand(b))
  THEN Num(Operand(a).num - Operand(b).num) ELSE NaN

growthRate(current, previous) ==
  IF ~Truthy(previous) THEN Num(0)
  ELSE RatePercent(Minus(current, previous), previous)

\* v != null && !isNaN(v)
IsValidValue(v) == NotNullish(v) /\ IsNumber(Operand(v))

RECURSIVE SumFrom(_, _)
\* values.reduce((sum, val) => sum + val, 0) from the i-th value on
SumFrom(values, i) ==
  IF i > Len(values) THEN 0 ELSE Operand(values[i]).num + SumFrom(values, i + 1)

average(values) ==
  LET valid == {i \in 1..Len(values) : IsValidValue(values[i])}
      validValues == [k \in 1..Cardinality(valid) |-> values[Sorted(valid)[k]]]
  IN IF Len(validValues) = 0 THEN Num(0)
     ELSE Hundredths(RoundPercent(SumFrom(validValues, 1), Len(validValues)))

\* a + b on numbers
Plus(a, b) ==
  IF IsNumber(a) /\ IsNumber(b) THEN Num(a.num + b.num) ELSE NaN

\* the formula of the calculation `key`, applied to data: key -> value
EvalFormula(key, data) ==
  CASE key = "averageStaff" ->
         (IF IsNumber(Plus(Lookup(data, "staffAtStart"), Lookup(data, "staffAtEnd")))
          THEN Num(RoundDiv(Plus(Lookup(data, "staffAtStart"),
                                 Lookup(data, "staffAtEnd")).num, 2))
          ELSE NaN)
    [] key = "turnoverRate" ->
         turnoverRate(Lookup(data, "staffLeft"), Lookup(data, "averageStaff"))
    [] key = "totalFunding" ->
         Plus(Lookup(data, "coreFunding"), Lookup(data, "projectFunding"))
    [] key = "corePercentage" ->
         corePercentage(Lookup(data, "coreFunding"), Lookup(data, "totalFunding"))
    [] key = "fundingRatio" ->
         fundingRatio(Lookup(data, "projectFunding"), Lookup(data, "coreFunding"))

(***************************************************************************)
(* ValidationRules (dataEngine.js 149-185).  A rule returns null or the    *)
(* string of its message.                                                  *)
(***************************************************************************)
\* the count of hundredths of a number that is not NaN
InHundredths(v) == IF v.str = "/100" THEN v.num ELSE 100 * v.num

IsNaN(v) == v.kind = "number" /\ v.str = "NaN"

\* a < b : false when either side converts to NaN
LessThan(a, b) ==
  /\ ~IsNaN(Operand(a)) /\ ~IsNaN(Operand(b))
  /\ InHundredths(Operand(a)) < InHundredths(Operand(b))

\* Number.isInteger(v)
IsInteger(v) == IsNumber(v)

ValidatePercentage(value) ==
  IF LessThan(value, Num(0)) THEN Str("Percentage cannot be negative")
  ELSE IF LessThan(Num(100), value) THEN Str("Percentage cannot exceed 100%")
  ELSE Null

ValidateCurrency(value) ==
  IF LessThan(value, Num(0)) THEN Str("Amount cannot be negative") ELSE Null

ValidateStaffCount(value) ==
  IF LessThan(value, Num(0)) THEN Str("Staff count cannot be negative")
  ELSE IF ~IsInteger(value) THEN Str("Staff count must be a whole number")
  ELSE Null

ValidateRequired(value) ==
  IF ~NotNullish(value) \/ value = Str("") THEN Str("This field is required") ELSE Null

ValidateScale(value, min, max) ==
  IF LessThan(value, Num(min)) \/ LessThan(Num(max), value)
  THEN Str("Value must be between " \o ToString(min) \o " and " \o ToString(max))
  ELSE Null

(***************************************************************************)
(* CSV rows.  A row is a JavaScript object with string values: the         *)
(* sequence of its <<key, value>> pairs in key order (Object.keys).        *)
(***************************************************************************)
Keys(row) == [i \in 1..Len(row) |-> row[i][1]]

\* row[key]: the value of the property, undefined when the row has none
Get(row, key) ==
  LET hits == {i \in 1..Len(row) : row[i][1] = key}
  IN IF hits = {} THEN Undefined ELSE Str(row[Min(hits)][2])

\* Array.prototype.find over the keys: the first key among those the
\* predicate accepts, or undefined
FindKey(keys, accepted) ==
  LET hits == {i \in 1..Len(keys) : keys[i] \in accepted}
  IN IF hits = {} THEN Undefined ELSE Str(keys[Min(hits)])

\* a property name computed from a value: undefined names "undefined"
PropName(v) == IF v.kind = "undefined" THEN "undefined" ELSE v.str

\* x || '' for a string-or-undefined x
OrEmpty(v) == IF Truthy(v) THEN v.str ELSE ""

(***************************************************************************)
(* determineTier (dataEngine.js 691-710).                                  *)
(***************************************************************************)
\* a variant that tests the tier-3 keywords before the tier-2 keywords
determineTier_tier3First(indicator, method) ==
  LET text == ToLowerCase(indicator \o " " \o method)
  IN IF Includes(text, "staff") /\ Includes(text, "turnover") THEN 1
     ELSE IF Includes(text, "funding")
             /\ (Includes(text, "core") \/ Includes(text, "ratio")) THEN 1
     ELSE IF Includes(text, "board") /\ Includes(text, "meeting") THEN 1
     ELSE IF Includes(text, "outcome") \/ Includes(text, "impact") THEN 3
     ELSE IF Includes(text, "policy") \/ Includes(text, "advocacy") THEN 3
     ELSE IF Includes(text, "leadership") \/ Includes(text, "governance") THEN 3
     ELSE IF Includes(text, "collaboration") \/ Includes(text, "coalition") THEN 2
     ELSE IF Includes(text, "satisfaction") \/ Includes(text, "feedback") THEN 2
     ELSE IF Includes(text, "training")
             \/ Includes(text, "professional development") THEN 2
     ELSE 2

determineTier(indicator, method) ==
  LET text == ToLowerCase(indicator \o " " \o method)
  IN IF Includes(text, "staff") /\ Includes(text, "turnover") THEN 1
     ELSE IF Includes(text, "funding")
             /\ (Includes(text, "core") \/ Includes(text, "ratio")) THEN 1
     ELSE IF Includes(text, "board") /\ Includes(text, "meeting") THEN 1
     ELSE IF Includes(text, "collaboration") \/ Includes(text, "coalition") THEN 2
     ELSE IF Includes(text, "satisfaction") \/ Includes(text, "feedback") THEN 2
     ELSE IF Includes(text, "training")
             \/ Includes(text, "professional development") THEN 2
     ELSE IF Includes(text, "outcome") \/ Includes(text, "impact") THEN 3
     ELSE IF Includes(text, "policy") \/ Includes(text, "advocacy") THEN 3
     ELSE IF Includes(text, "leadership") \/ Includes(text, "governance") THEN 3
     ELSE 2

(***************************************************************************)
(* generateStandardizedFields (dataEngine.js 571-686).  The result is      *)
(* either the returned indicator list or the thrown Error's message.       *)
(***************************************************************************)
Returned(v) == [threw |-> FALSE, value |-> v, message |-> ""]
Threw(m) == [threw |-> TRUE, value |-> <<>>, message |-> m]

\* a variant that compares the header as written, without toLowerCase
IsIndicatorKey_caseSensitive(key) ==
  \/ Includes(key, "indicator")
  \/ Includes(key, "outcome")
  \/ Includes(key, "measure")

IsIndicatorKey(key) ==
  \/ Includes(ToLowerCase(key), "indicator")
  \/ Includes(ToLowerCase(key), "outcome")
  \/ Includes(ToLowerCase(key), "measure")

IsMethodKey(key) ==
  \/ Includes(ToLowerCase(key), "method")
  \/ Includes(ToLowerCase(key), "how")
  \/ Includes(ToLowerCase(key), "measurement")
  \/ Includes(ToLowerCase(key), "approach")

IsNotesKey(key) ==
  \/ Includes(ToLowerCase(key), "note")
  \/ Includes(ToLowerCase(key), "description")
  \/ Includes(ToLowerCase(key), "comment")

indicatorCol(firstRow) ==
  FindKey(Keys(firstRow),
          {firstRow[i][1] : i \in {k \in 1..Len(firstRow) : IsIndicatorKey(firstRow[k][1])}})
methodCol(firstRow) ==
  FindKey(Keys(firstRow),
          {firstRow[i][1] : i \in {k \in 1..Len(firstRow) : IsMethodKey(firstRow[k][1])}})
notesCol(firstRow) ==
  FindKey(Keys(firstRow),
          {firstRow[i][1] : i \in {k \in 1..Len(firstRow) : IsNotesKey(firstRow[k][1])}})

\* a property that is copied only when the source object defines it
Opt1(rec, k) == IF k \in DOMAIN rec THEN (k :> rec[k]) ELSE EmptyRec

\* a variant that numbers the rows from one
IndicatorId_oneBased(index) == "indicator_" \o ToString(index + 1)

\* `indicator_${index}` (line 616)
IndicatorId(index) == "indicator_" \o ToString(index)

FieldId(indicatorId, key) == indicatorId \o "_" \o key

\* an input field of a calculated group (lines 628-638)
GroupField(indicatorId, field) ==
  [id |-> FieldId(indicatorId, field.key), type |-> field.type,
   label |-> field.label, required |-> TRUE,
   placeholder |-> field.placeholder, validation |-> field.validation]
  @@ Opt1(field, "description")

CalcUnit(calc) ==
  IF "format" \in DOMAIN calc /\ calc.format = "percentage" THEN "%"
  ELSE IF "format" \in DOMAIN calc /\ calc.format = "currency" THEN "$"
  ELSE ""

\* a derived field of a calculated group (lines 641-651)
CalcField(indicatorId, calc) ==
  [id |-> FieldId(indicatorId, calc.key), type |-> CALCULATED,
   label |-> calc.label, formula |-> calc.formula,
   unit |-> CalcUnit(calc), required |-> FALSE]
  @@ Opt1(calc, "format")

\* a field of a multi-part indicator (lines 654-665)
PartField(indicatorId, field) ==
  [id |-> FieldId(indicatorId, field.key), type |-> field.type,
   label |-> field.label, options |-> field.options,
   required |-> (\E i \in 1..Len(field.validation) : field.validation[i] = "required"),
   validation |-> field.validation]
  @@ (IF "dependsOn" \in DOMAIN field
      THEN [dependsOn |-> FieldId(indicatorId, field.dependsOn)] ELSE EmptyRec)
  @@ Opt1(field, "dependsOnValue")

\* the single field of a simple indicator (lines 668-679)
SimpleField(indicatorId, fieldConfig, indicatorText, methodText) ==
  [id |-> FieldId(indicatorId, "main"), type |-> fieldConfig.type,
   label |-> indicatorText, description |-> methodText, required |-> TRUE,
   validation |-> fieldConfig.validation]
  @@ (IF "options" \in DOMAIN fieldConfig THEN [options |-> fieldConfig.options]
      ELSE IF "scale" \in DOMAIN fieldConfig THEN [options |-> fieldConfig.scale]
      ELSE EmptyRec)
  @@ Opt1(fieldConfig, "placeholder")
  @@ Opt1(fieldConfig, "maxLength")
  @@ Opt1(fieldConfig, "warning")

ExpandFields(indicatorId, fieldConfig, indicatorText, methodText) ==
  IF fieldConfig.type = "calculated_group"
  THEN [i \in 1..Len(fieldConfig.fields) |->
          GroupField(indicatorId, fieldConfig.fields[i])]
       \o [i \in 1..Len(fieldConfig.calculations) |->
          CalcField(indicatorId, fieldConfig.calculations[i])]
  ELSE IF fieldConfig.type = "multi_part"
  THEN [i \in 1..Len(fieldConfig.fields) |->
          PartField(indicatorId, fieldConfig.fields[i])]
  ELSE << SimpleField(indicatorId, fieldConfig, indicatorText, methodText) >>

\* a variant that skips only the empty indicator text, without trim
SkipsRow_noTrim(row, indCol) ==
  LET indicatorText == Get(row, PropName(indCol))
  IN ~Truthy(indicatorText)

\* whether the forEach body returns early for this row (line 613)
SkipsRow(row, indCol) ==
  LET indicatorText == Get(row, PropName(indCol))
  IN ~Truthy(indicatorText) \/ Trim(indicatorText.str) = ""

\* the forEach body for one row (lines 609-683); index is zero-based
IndicatorOfRow(row, index, indCol, metCol, notCol) ==
  LET indicatorText == Get(row, PropName(indCol)).str
      methodText == OrEmpty(Get(row, PropName(metCol)))
      id == IndicatorId(index)
  IN [id |-> id,
      title |-> Trim(indicatorText),
      description |-> OrEmpty(Get(row, PropName(notCol))),
      tier |-> determineTier(indicatorText, methodText),
      fields |-> ExpandFields(id, createFieldConfig(indicatorText, methodText),
                              indicatorText, methodText)]

generateStandardizedFields(csvRows) ==
  IF Len(csvRows) = 0 THEN Returned(<<>>)
  ELSE
    LET firstRow == csvRows[1]
        indCol == indicatorCol(firstRow)
        metCol == methodCol(firstRow)
        notCol == notesCol(firstRow)
    IN IF indCol.kind = "undefined"
       THEN Threw("No indicator column found. Available columns: "
                  \o Join(Keys(firstRow), ", "))
       ELSE Returned(Flatten(
              [i \in 1..Len(csvRows) |->
                 IF SkipsRow(csvRows[i], indCol) THEN <<>>
                 ELSE << IndicatorOfRow(csvRows[i], i - 1, indCol, metCol, notCol) >>]))

(***************************************************************************)
(* calculateCompletionScore (715-741), calculateDataQuality (495-525).     *)
(***************************************************************************)
\* a variant that tests the response for truthiness
IsAnswered_truthy(v) == Truthy(v)

\* v != null && v !== ''
IsAnswered(v) == NotNullish(v) /\ ~(v.kind = "string" /\ v.str = "")

AllFields(indicators) ==
  Flatten([i \in 1..Len(indicators) |-> indicators[i].fields])

\* whether the scorer counts the field in totalFields (line 725)
IsCounted(field) == field.type # CALCULATED

calculateCompletionScore(indicators, responses) ==
  IF Len(indicators) = 0 THEN [percentage |-> 0, completed |-> 0, total |-> 0]
  ELSE
    LET fields == AllFields(indicators)
        totalFields == Cardinality({i \in 1..Len(fields) : IsCounted(fields[i])})
        completedFields ==
          Cardinality({i \in 1..Len(fields) :
             IsCounted(fields[i]) /\ IsAnswered(Lookup(responses, fields[i].id))})
    IN [percentage |-> IF totalFields > 0
                       THEN RoundPercent(completedFields, totalFields) ELSE 0,
        completed |-> completedFields,
        total |-> totalFields]

StructuredTypes == {NUMBER, CURRENCY, RADIO, CHECKBOX, SCALE, CALCULATED}

\* a variant that divides without the guard on totalFields: nothing
\* missing of nothing asked reads as complete
QualityCompleteness_unguarded(completedFields, totalFields) ==
  IF totalFields > 0 THEN RoundPercent(completedFields, totalFields) ELSE 100

\* the completeness ratio of calculateDataQuality (line 521)
QualityCompleteness(completedFields, totalFields) ==
  IF totalFields > 0 THEN RoundPercent(completedFields, totalFields) ELSE 0

\* the overall score of calculateDataQuality (line 523):
\* Math.round(((completed * 0.6 + standardized * 0.4) / total) * 100)
QualityOverall(completedFields, standardizedFields, totalFields) ==
  MathRound(MulDouble(
    DivDouble(AddDouble(MulDouble(DivDouble(DoubleOf(6), 10), completedFields),
                        MulDouble(DivDouble(DoubleOf(4), 10), standardizedFields)),
              totalFields),
    100))

\* responses: a function from keys to records [value, type]
calculateDataQuality(responses) ==
  LET totalFields == Cardinality(DOMAIN responses)
      completed == {k \in DOMAIN responses : IsAnswered(responses[k].value)}
      completedFields == Cardinality(completed)
      standardizedFields ==
        Cardinality({k \in completed : responses[k].type \in StructuredTypes})
  IN [completeness |-> QualityCompleteness(completedFields, totalFields),
      standardization |-> IF completedFields > 0
                          THEN RoundPercent(standardizedFields, completedFields)
                          ELSE 0,
      overallScore |-> IF totalFields > 0
                       THEN QualityOverall(completedFields, standardizedFields, totalFields)
                       ELSE 0]

(***************************************************************************)
(* detectOrganization (dataEngine.js 531-565).                             *)
(***************************************************************************)
organizations ==
  << [name |-> "Victoria Family Works Centre", code |-> "VFWC"],
     [name |-> "Women's Action Women's Centre", code |-> "WAWC"],
     [name |-> "Victoria Community Women's Shelter", code |-> "VCWS"],
     [name |-> "Community Women's Worker Association", code |-> "CWWA"],
     [name |-> "YWCA Victoria", code |-> "YWCA"] >>

NullOrg == [isNull |-> TRUE, name |-> "", code |-> ""]
Org(o) == [isNull |-> FALSE, name |-> o.name, code |-> o.code]

\* JSON.stringify of a string: quotes, with line feeds and quotes escaped
JsonEscape(s) ==
  ConcatRange([i \in 1..Len(s) |->
     IF CharAt(s, i) = "\n" THEN "\\n"
     ELSE IF CharAt(s, i) = "\"" THEN "\\\""
     ELSE IF CharAt(s, i) = "\t" THEN "\\t"
     ELSE CharAt(s, i)], 1, Len(s), "")

JsonString(s) == "\"" \o JsonEscape(s) \o "\""

JsonRow(row) ==
  "{" \o Join([i \in 1..Len(row) |->
                 JsonString(row[i][1]) \o ":" \o JsonString(row[i][2])], ",") \o "}"

\* JSON.stringify(csvData)
JsonStringify(csvRows) ==
  "[" \o Join([i \in 1..Len(csvRows) |-> JsonRow(csvRows[i])], ",") \o "]"

CodeOccurs_caseSensitive(allText, code) == Includes(allText, code)

\* allText.includes(code.toLowerCase())
CodeOccurs(allText, code) == Includes(allText, ToLowerCase(code))

detectOrganization(csvRows) ==
  IF Len(csvRows) = 0 THEN NullOrg
  ELSE
    LET firstRow == csvRows[1]
        allText == ToLowerCase(JsonStringify(csvRows))
        inText == {i \in 1..Len(organizations) :
                     CodeOccurs(allText, organizations[i].code)}
        keys == Keys(firstRow)
        keyHits == {k \in 1..Len(keys) :
                      \E i \in 1..Len(organizations) :
                         organizations[i].code = ToUpperCase(keys[k])}
    IN IF inText # {} THEN Org(organizations[Min(inText)])
       ELSE IF keyHits # {}
       THEN Org(CHOOSE o \in {organizations[i] : i \in 1..Len(organizations)} :
                   o.code = ToUpperCase(keys[Min(keyHits)]))
       ELSE [isNull |-> FALSE, name |-> "Organization", code |-> "ORG"]

(***************************************************************************)
(* The session: the state of the App component (part_000 6-11), the CSV    *)
(* parses in flight (Papa.parse is asynchronous, 19-59), and what the last *)
(* step showed or emitted: the alert it raised and the report it           *)
(* downloaded.  `call` and `result` hold the argument and the result of an *)
(* engine function applied on its own.                                     *)
(***************************************************************************)
VARIABLES csvData, organization, indicators, currentIndicator, responses,
          isComplete, parsing, alerted, download, call, result

vars == <<csvData, organization, indicators, currentIndicator, responses,
          isComplete, parsing, alerted, download, call, result>>

appState == <<csvData, organization, indicators, currentIndicator, responses,
              isComplete, parsing, alerted, download>>

\* the greatest number of parses in flight at once
MaxInFlight == 2

NullData == [isNull |-> TRUE, rows |-> <<>>]
Data(rows) == [isNull |-> FALSE, rows |-> rows]
EmptyStore == [k \in {} |-> Undefined]
NoReport == [isNull |-> TRUE]
NoCall == [fn |-> "none"]
NoResult == [done |-> FALSE]

Row3(h, a, b, c) == << <<h[1], a>>, <<h[2], b>>, <<h[3], c>> >>
Row2(h, a, b) == << <<h[1], a>>, <<h[2], b>> >>

WorkplanHeaders == <<"Indicator", "Measurement Method", "Notes">>
GovernanceHeaders == <<"Outcome", "How measured">>
FundingHeaders == <<"Measure", "Approach">>

TurnoverRow ==
  Row3(WorkplanHeaders, "Staff Turnover Rate",
       "Count of staff at the start and end of the period", "HR records")

WorkplanRows ==
  << TurnoverRow,
     Row3(WorkplanHeaders, "  ", "n/a", ""),
     Row3(WorkplanHeaders, "Clients housed",
          "Percentage of clients housed within 90 days", "") >>

GovernanceRows ==
  << Row2(GovernanceHeaders, "YWCA board policy review",
          "Was the policy reviewed this year? (Yes/No)"),
     Row2(GovernanceHeaders, "Client satisfaction",
          "How satisfied are clients with services"),
     Row2(GovernanceHeaders, "Partner types",
          "Check all that apply:\n# Shelters\n# Schools") >>

FundingRows ==
  << Row2(FundingHeaders, "Core funding ratio",
          "Ratio of project funding to core funding") >>

NoColumnRows ==
  << << <<"Name", "Staff Turnover">>, <<"Value", "12">>, <<"Org", "VFWC">> >> >>

\* the number of rows of the large workplan
BulkRows == 67

\* The files the user can select.  A file is what Papa.parse makes of it:
\* unreadable (the error callback), or results.errors and results.data.
File(name, readable, errors, data) ==
  [name |-> name, readable |-> readable, errors |-> errors, data |-> data]

Files ==
  << File("workplan.csv", TRUE, <<>>, WorkplanRows),
     File("governance.csv", TRUE, <<>>, GovernanceRows),
     File("funding.csv", TRUE, <<>>, FundingRows),
     File("nocolumn.csv", TRUE, <<>>, NoColumnRows),
     File("empty.csv", TRUE, <<>>, <<>>),
     File("broken.csv", TRUE, <<"Too few fields">>, FundingRows),
     File("unreadable.csv", FALSE, <<>>, <<>>),
     File("bulk.csv", TRUE, <<>>, [i \in 1..BulkRows |-> TurnoverRow]) >>

\* the files of an ordinary session, and the large workplan
BulkFileId == Len(Files)
FileIds == 1..(Len(Files) - 1)

\* what the user can type into a number input (Number(e.target.value);
\* the empty input gives 0)
TypedNumbers == {-1, 0, 3}
TypedPercentages == {-1, 0, 50, 101}

Init ==
  /\ csvData = NullData
  /\ organization = NullOrg
  /\ indicators = <<>>
  /\ currentIndicator = 0
  /\ responses = EmptyStore
  /\ isComplete = FALSE
  /\ parsing = {}
  /\ alerted = ""
  /\ download = NoReport
  /\ call = NoCall
  /\ result = NoResult

\* which screen the component renders (line 106)
UploadScreen == csvData.isNull
MainScreen == ~csvData.isNull

\* indicators[currentIndicator], when there is one (lines 176, 220)
HasCurrentIndicator == currentIndicator < Len(indicators)
currentIndicatorData == indicators[currentIndicator + 1]

\* handleFileUpload (13-60), up to the call of Papa.parse: f = 0 is a change
\* event without a file
handleFileUpload(f) ==
  /\ UploadScreen
  /\ IF f = 0 THEN parsing' = parsing
     ELSE /\ Cardinality(parsing \cup {f}) <= MaxInFlight
          /\ parsing' = parsing \cup {f}
  /\ alerted' = ""
  /\ download' = NoReport
  /\ UNCHANGED <<csvData, organization, indicators, currentIndicator,
                 responses, isComplete, call, result>>

\* what the engine returns for the rows of each file: the calls of
\* detectOrganization (line 38) and generateStandardizedFields (line 42)
\* depend on results.data alone
Detected == [f \in 1..Len(Files) |-> detectOrganization(Files[f].data)]
Compiled == [f \in 1..Len(Files) |-> generateStandardizedFields(Files[f].data)]

\* a variant of the try block that keeps the responses of the previous file
ProcessCsv_keepResponses(f) ==
  LET standardizedIndicators == Compiled[f]
  IN /\ organization' = Detected[f]
     /\ IF standardizedIndicators.threw
        THEN /\ alerted' = "Error processing CSV file: "
                           \o standardizedIndicators.message
             /\ UNCHANGED <<indicators, currentIndicator, responses, isComplete>>
        ELSE /\ indicators' = standardizedIndicators.value
             /\ currentIndicator' = 0
             /\ isComplete' = FALSE
             /\ alerted' = ""
             /\ UNCHANGED responses

\* the state the try block of the complete callback leaves (37-51)
ProcessCsv(f) ==
  LET standardizedIndicators == Compiled[f]
  IN /\ organization' = Detected[f]
     /\ IF standardizedIndicators.threw
        THEN /\ alerted' = "Error processing CSV file: "
                           \o standardizedIndicators.message
             /\ UNCHANGED <<indicators, currentIndicator, responses, isComplete>>
        ELSE /\ indicators' = standardizedIndicators.value
             /\ currentIndicator' = 0
             /\ responses' = EmptyStore
             /\ isComplete' = FALSE
             /\ alerted' = ""

\* the complete callback of Papa.parse (20-52)
parseComplete(f) ==
  /\ f \in parsing
  /\ Files[f].readable
  /\ parsing' = parsing \ {f}
  /\ download' = NoReport
  /\ UNCHANGED <<call, result>>
  /\ IF Len(Files[f].errors) > 0
     THEN /\ alerted' = "Error parsing CSV file: " \o Files[f].errors[1]
          /\ UNCHANGED <<csvData, organization, indicators, currentIndicator,
                         responses, isComplete>>
     ELSE IF Len(Files[f].data) = 0
     THEN /\ alerted' = "CSV file appears to be empty or invalid"
          /\ UNCHANGED <<csvData, organization, indicators, currentIndicator,
                         responses, isComplete>>
     ELSE /\ csvData' = Data(Files[f].data)
          /\ ProcessCsv(f)

\* the error callback of Papa.parse (53-56)
parseError(f) ==
  /\ f \in parsing
  /\ ~Files[f].readable
  /\ parsing' = parsing \ {f}
  /\ alerted' = "Error reading CSV file: unreadable"
  /\ download' = NoReport
  /\ UNCHANGED <<csvData, organization, indicators, currentIndicator,
                 responses, isComplete, call, result>>

\* String(v), for an option value
ToStr(v) == IF v.kind = "number" THEN ToString(v.num) ELSE v.str

\* Number(s), for the string of an option value
ToNumber(v) == IF v.kind = "number" THEN v ELSE NaN

\* the values the input rendered for a field passes to handleFieldChange
\* (255-327); a field of another type renders no input
UserValues(field) ==
  IF field.type \in {NUMBER, CURRENCY} THEN {Num(n) : n \in TypedNumbers}
  ELSE IF field.type = PERCENTAGE THEN {Num(n) : n \in TypedPercentages}
  ELSE IF field.type = RADIO
  THEN {Str(ToStr(field.options[i].value)) : i \in 1..Len(field.options)}
  ELSE IF field.type = SCALE
  THEN {ToNumber(field.options[i].value) : i \in 1..Len(field.options)}
  ELSE {}

\* the completion test of handleFieldChange (line 67)
CompletesSubmission(completionScore) == completionScore.percentage = 100

\* handleFieldChange (62-70)
handleFieldChange(fieldId, value) ==
  LET newResponses == (fieldId :> value) @@ responses
      completionScore == calculateCompletionScore(indicators, newResponses)
  IN /\ responses' = newResponses
     /\ isComplete' = IF CompletesSubmission(completionScore) THEN TRUE
                      ELSE isComplete
     /\ alerted' = ""
     /\ download' = NoReport
     /\ UNCHANGED <<csvData, organization, indicators, currentIndicator,
                    parsing, call, result>>

\* a change event of an input of the current indicator
FieldInput(k, value) ==
  /\ MainScreen
  /\ HasCurrentIndicator
  /\ k \in 1..Len(currentIndicatorData.fields)
  /\ value \in UserValues(currentIndicatorData.fields[k])
  /\ handleFieldChange(currentIndicatorData.fields[k].id, value)

\* a variant that advances without the test of line 73
nextIndicator_unbounded ==
  /\ MainScreen
  /\ HasCurrentIndicator
  /\ currentIndicator' = currentIndicator + 1
  /\ alerted' = ""
  /\ download' = NoReport
  /\ UNCHANGED <<csvData, organization, indicators, responses, isComplete,
                 parsing, call, result>>

\* nextIndicator (72-76), from the Next button (358-364)
nextIndicator ==
  /\ MainScreen
  /\ HasCurrentIndicator
  /\ currentIndicator' = IF currentIndicator < Len(indicators) - 1
                         THEN currentIndicator + 1 ELSE currentIndicator
  /\ alerted' = ""
  /\ download' = NoReport
  /\ UNCHANGED <<csvData, organization, indicators, responses, isComplete,
                 parsing, call, result>>

\* prevIndicator (78-82), from the Previous button (346-352)
prevIndicator ==
  /\ MainScreen
  /\ HasCurrentIndicator
  /\ currentIndicator' = IF currentIndicator > 0
                         THEN currentIndicator - 1 ELSE currentIndicator
  /\ alerted' = ""
  /\ download' = NoReport
  /\ UNCHANGED <<csvData, organization, indicators, responses, isComplete,
                 parsing, call, result>>

\* responses[field.id] || null (line 92)
ReportValue(store, field) ==
  IF Truthy(Lookup(store, field.id)) THEN Lookup(store, field.id) ELSE Null

\* reportData (85-96); now is new Date().toISOString()
ReportData(now) ==
  [isNull |-> FALSE,
   organization |-> IF ~organization.isNull /\ organization.name # ""
                    THEN organization.name ELSE "Unknown Organization",
   submissionDate |-> now,
   indicators |->
     [i \in 1..Len(indicators) |->
        indicators[i] @@
        [responses |->
           [k \in 1..Len(indicators[i].fields) |->
              [value |-> ReportValue(responses, indicators[i].fields[k])]
              @@ indicators[i].fields[k]]]],
   completionScore |-> calculateCompletionScore(indicators, responses)]

Clock == {"2026-01-15T10:00:00.000Z", "2026-01-16T10:00:00.000Z"}

\* a variant that clears the store once the report is built
generateReport_clearing(now) ==
  /\ MainScreen
  /\ isComplete
  /\ download' = ReportData(now)
  /\ alerted' = ""
  /\ responses' = EmptyStore
  /\ UNCHANGED <<csvData, organization, indicators, currentIndicator,
                 isComplete, parsing, call, result>>

\* generateReport (84-104), from the Generate Report button (211-215)
generateReport(now) ==
  /\ MainScreen
  /\ isComplete
  /\ download' = ReportData(now)
  /\ alerted' = ""
  /\ UNCHANGED <<csvData, organization, indicators, currentIndicator,
                 responses, isComplete, parsing, call, result>>

\* what the block of a calculated field shows (line 332)
CalculatedDisplay(store, field) ==
  IF Truthy(Lookup(store, field.id)) THEN Lookup(store, field.id)
  ELSE Str("Calculating...")

Next ==
  \/ \E f \in {0} \cup FileIds : handleFileUpload(f)
  \/ \E f \in FileIds : parseComplete(f)
  \/ \E f \in FileIds : parseError(f)
  \/ \E k \in 1..5, v \in {Num(n) : n \in TypedNumbers \cup TypedPercentages \cup 1..5}
                         \cup {Str("yes"), Str("no")} : FieldInput(k, v)
  \/ nextIndicator
  \/ prevIndicator
  \/ \E now \in Clock : generateReport(now)

Spec == Init /\ [][Next]_vars

(***************************************************************************)
(* A session on a large workplan, filled in front to back: the same        *)
(* handlers, with a user who uploads one file of BulkRows turnover rows,   *)
(* types 3 into the first unanswered input of the indicator shown and      *)
(* moves on when the indicator shown is answered.                          *)
(***************************************************************************)
\* the inputs of the indicator shown that have no response yet
Unanswered ==
  {k \in 1..Len(currentIndicatorData.fields) :
     /\ UserValues(currentIndicatorData.fields[k]) # {}
     /\ ~IsAnswered(Lookup(responses, currentIndicatorData.fields[k].id))}

BulkUpload ==
  /\ parsing = {}
  /\ handleFileUpload(BulkFileId)

BulkFieldInput ==
  /\ MainScreen
  /\ HasCurrentIndicator
  /\ Unanswered # {}
  /\ FieldInput(Min(Unanswered), Num(3))

BulkNext ==
  /\ MainScreen
  /\ HasCurrentIndicator
  /\ Unanswered = {}
  /\ currentIndicator < Len(indicators) - 1
  /\ nextIndicator

NextBulk ==
  \/ BulkUpload
  \/ parseComplete(BulkFileId)
  \/ BulkFieldInput
  \/ BulkNext
  \/ \E now \in Clock : generateReport(now)

SpecBulk == Init /\ [][NextBulk]_vars

(***************************************************************************)
(* The engine's functions applied on their own: Init draws the arguments,  *)
(* the action applies the function.                                        *)
(***************************************************************************)
InitApp ==
  /\ csvData = NullData
  /\ organization = NullOrg
  /\ indicators = <<>>
  /\ currentIndicator = 0
  /\ responses = EmptyStore
  /\ isComplete = FALSE
  /\ parsing = {}
  /\ alerted = ""
  /\ download = NoReport

Done(out) == [done |-> TRUE, out |-> out]

\* createFieldConfig(name, method)
SampleNames ==
  {"Staff Turnover Rate", "Core funding ratio", "Employee wellness benefits",
   "Board compensation", "Coalition meetings", "Client satisfaction",
   "Universal indicator", ""}

SampleMethods ==
  {"Does your organization offer a wellness program? (Yes/No) If yes, Which of the following are offered? (Check all that apply): # EAP # Health plan",
   "Do staff have benefits? (Yes/No)\nWhat is offered? Check all that apply\n# EAP\n# Health plan",
   "Check all that apply:\n# Shelters\n# Schools",
   "Was the policy reviewed? (Yes/No)",
   "check all that apply",
   "How difficult is hiring? Options: not difficult, somewhat difficult",
   "How many meetings were attended",
   "Percentage of clients housed",
   "How satisfied are clients",
   "Describe the change",
   "How many partners signed? yes/no",
   "% of partners engaged",
   "Select (check all that apply): # Shelters # Food-bank",
   ""}

InitClassify ==
  /\ InitApp
  /\ call \in {[fn |-> "createFieldConfig", name |-> n, method |-> m] :
                 n \in SampleNames, m \in SampleMethods}
  /\ result = NoResult

CallCreateFieldConfig ==
  /\ call.fn = "createFieldConfig"
  /\ ~result.done
  /\ result' = Done(createFieldConfig(call.name, call.method))
  /\ UNCHANGED <<appState, call>>

SpecClassify == InitClassify /\ [][CallCreateFieldConfig]_vars

\* generateStandardizedFields(rows): row sets of up to MaxRows rows under
\* one header row
MaxRows == 2

SampleHeaders ==
  { <<"Indicator", "Measurement Method", "Notes">>,
    <<"Outcome", "Approach", "Comment">>,
    <<"Measure", "Value", "Owner">>,
    <<"Name", "Method", "Notes">>,
    <<"Description", "How", "INDICATOR">> }

SampleCells ==
  { <<"Staff Turnover Rate", "Count staff at start and end", "HR">>,
    <<"Staff retention", "Count staff at start and end", "">>,
    <<"  ", "Percentage of clients housed", "Clients housed">>,
    <<"", "", "">>,
    <<" Clients housed ", "Percentage of clients housed", " \n">>,
    <<"Core funding ratio", "Was it reviewed? (Yes/No)", "Board review">>,
    <<"Partners", "Check all that apply:\n# Shelters\n# Schools", "Partner types">>,
    <<"Supports", "Check all that apply:\n# Food bank\n# food  bank\n# Other", "">> }

\* a row cut short: Papa.parse leaves out the keys of the missing cells
ShortRow(h, c) == << <<h[1], c[1]>> >>

RowsOver(h) ==
  {Row3(h, c[1], c[2], c[3]) : c \in SampleCells}
  \cup {ShortRow(h, c) : c \in {<<"Staff Turnover Rate", "", "">>}}

SampleRowSets ==
  UNION {UNION {[1..n -> RowsOver(h)] : n \in 0..MaxRows} : h \in SampleHeaders}

InitCompile ==
  /\ InitApp
  /\ call \in {[fn |-> "generateStandardizedFields", rows |-> r] :
                 r \in SampleRowSets}
  /\ result = NoResult

CallGenerateStandardizedFields ==
  /\ call.fn = "generateStandardizedFields"
  /\ ~result.done
  /\ result' = Done(generateStandardizedFields(call.rows))
  /\ UNCHANGED <<appState, call>>

SpecCompile == InitCompile /\ [][CallGenerateStandardizedFields]_vars

\* calculateCompletionScore(generateStandardizedFields(rows).value, store)
\* for stores over the field ids of the compiled rows, and
\* calculateDataQuality(records) over up to MaxQualityKeys keys
MaxQualityKeys == 3

ScoreRowSets ==
  { <<>>,
    << TurnoverRow >>,
    << Row3(WorkplanHeaders, "  ", "n/a", "") >>,
    << Row3(WorkplanHeaders, "  ", "n/a", ""),
       Row3(WorkplanHeaders, "Clients housed", "Percentage of clients housed", ""),
       Row3(WorkplanHeaders, "Partners", "How many partners", "") >> }

\* what a store may hold for an input field, and for a calculated field
InputChoices == {Undefined, Null, Str(""), Num(0), Str("0"), Bool(FALSE)}
CalcChoices == {Undefined, Num(7)}

StoresOver(fields) ==
  LET ids == {fields[i].id : i \in 1..Len(fields)}
      typeOf(id) == (CHOOSE i \in 1..Len(fields) : fields[i].id = id)
      full == {f \in [ids -> InputChoices \cup CalcChoices] :
                 \A id \in ids :
                    f[id] \in (IF fields[typeOf(id)].type = CALCULATED
                               THEN CalcChoices ELSE InputChoices)}
  IN {[id \in {i \in ids : f[i] # Undefined} |-> f[id]] : f \in full}

QualityKeys == {"q1", "q2", "q3", "q4", "q5", "q6"}
QualityValues == {Null, Str(""), Num(0)}
QualityTypes == {NUMBER, TEXT_SHORT, CALCULATED}

QualityRecords ==
  UNION {[ks -> [value : QualityValues, type : QualityTypes]] :
           ks \in {{k \in QualityKeys : \E n \in 1..m : k = "q" \o ToString(n)} :
                     m \in 0..MaxQualityKeys}}

InitScore ==
  /\ InitApp
  /\ call \in
       {[fn |-> "calculateCompletionScore", rows |-> r, store |-> st] :
          r \in ScoreRowSets,
          st \in UNION {StoresOver(AllFields(generateStandardizedFields(r2).value)) :
                          r2 \in ScoreRowSets}}
       \cup {[fn |-> "calculateDataQuality", records |-> q] : q \in QualityRecords}
  /\ result = NoResult

CallCalculateCompletionScore ==
  /\ call.fn = "calculateCompletionScore"
  /\ ~result.done
  /\ result' = Done([indicators |-> generateStandardizedFields(call.rows).value,
                     score |-> calculateCompletionScore(
                                 generateStandardizedFields(call.rows).value,
                                 call.store)])
  /\ UNCHANGED <<appState, call>>

CallCalculateDataQuality ==
  /\ call.fn = "calculateDataQuality"
  /\ ~result.done
  /\ result' = Done(calculateDataQuality(call.records))
  /\ UNCHANGED <<appState, call>>

NextScore == CallCalculateCompletionScore \/ CallCalculateDataQuality

SpecScore == InitScore /\ [][NextScore]_vars

\* Calculations.<fn>(a, b) over numbers, zero and missing operands, and
\* Calculations.average over lists of up to MaxValues values and two
\* longer lists
MaxValues == 2

CalcOperands ==
  {Undefined, Null, NaN}
  \cup {Num(n) : n \in {-5, -3, 0, 3, 11, 23, 40, 197, 200, 75000, 150000, 225000}}

ListValues == {Undefined, Null, NaN, Num(-3), Num(0), Num(1), Num(4)}

CalcLists ==
  UNION {[1..n -> ListValues] : n \in 0..MaxValues}
  \cup { [i \in 1..8 |-> IF i = 1 THEN Num(-1) ELSE Num(0)],
         [i \in 1..8 |-> IF i = 1 THEN Num(1) ELSE Num(0)] }

BinaryCalculations == {"turnoverRate", "fundingRatio", "corePercentage", "growthRate"}

InitCalc ==
  /\ InitApp
  /\ call \in {[fn |-> f, a |-> a, b |-> b] :
                 f \in BinaryCalculations, a \in CalcOperands, b \in CalcOperands}
             \cup {[fn |-> "average", values |-> v] : v \in CalcLists}
  /\ result = NoResult

CallCalculation ==
  /\ call.fn \in BinaryCalculations
  /\ ~result.done
  /\ result' = Done(CASE call.fn = "turnoverRate" -> turnoverRate(call.a, call.b)
                       [] call.fn = "fundingRatio" -> fundingRatio(call.a, call.b)
                       [] call.fn = "corePercentage" -> corePercentage(call.a, call.b)
                       [] call.fn = "growthRate" -> growthRate(call.a, call.b))
  /\ UNCHANGED <<appState, call>>

CallAverage ==
  /\ call.fn = "average"
  /\ ~result.done
  /\ result' = Done(average(call.values))
  /\ UNCHANGED <<appState, call>>

NextCalc == CallCalculation \/ CallAverage

SpecCalc == InitCalc /\ [][NextCalc]_vars

\* detectOrganization(rows): row sets of up to MaxDetectRows rows of one
\* or two cells
MaxDetectRows == 2

DetectKeys == {"Org", "vfwc", "Foo", "VF"}

DetectCells == {"VFWC", "bar", "Ywca Victoria", "cwwa then WAWC", "WC", "VF\nWC", ""}

DetectRows ==
  {<< <<k, c>> >> : k \in DetectKeys, c \in DetectCells}
  \cup { << <<"Foo", "bar">>, <<"Notes", "see vcws">> >>,
         << <<"YWCA", "">>, <<"Notes", "">> >> }

DetectRowSets == UNION {[1..n -> DetectRows] : n \in 0..MaxDetectRows}

InitDetect ==
  /\ InitApp
  /\ call \in {[fn |-> "detectOrganization", rows |-> r] : r \in DetectRowSets}
  /\ result = NoResult

CallDetectOrganization ==
  /\ call.fn = "detectOrganization"
  /\ ~result.done
  /\ result' = Done(detectOrganization(call.rows))
  /\ UNCHANGED <<appState, call>>

SpecDetect == InitDetect /\ [][CallDetectOrganization]_vars

\* ValidationRules.<rule>(value) over numbers, fractions, strings and
\* missing values
ValidationInputs ==
  {Undefined, Null, NaN, Bool(TRUE), Bool(FALSE)}
  \cup {Str(t) : t \in {"", " ", "abc", "50", "150", "-3"}}
  \cup {Num(n) : n \in {-100, -1, 0, 1, 5, 6, 50, 100, 101, 1000}}
  \cup {Hundredths(h) : h \in {-50, 50, 9999, 10001}}

ValidationRuleNames == {"percentage", "currency", "staffCount", "required", "scale"}

InitValidate ==
  /\ InitApp
  /\ call \in {[fn |-> f, value |-> v] : f \in ValidationRuleNames, v \in ValidationInputs}
  /\ result = NoResult

CallValidationRule ==
  /\ call.fn \in ValidationRuleNames
  /\ ~result.done
  /\ result' = Done(CASE call.fn = "percentage" -> ValidatePercentage(call.value)
                       [] call.fn = "currency" -> ValidateCurrency(call.value)
                       [] call.fn = "staffCount" -> ValidateStaffCount(call.value)
                       [] call.fn = "required" -> ValidateRequired(call.value)
                       [] call.fn = "scale" -> ValidateScale(call.value, 1, 5))
  /\ UNCHANGED <<appState, call>>

SpecValidate == InitValidate /\ [][CallValidationRule]_vars

\* extractCheckboxOptions(method) and extractCheckboxOptionsFromMethod(method)
\* over method texts of up to MaxOptions checkbox entries, each call
\* followed by the extraction from the text rebuilt of the labels found
MaxOptions == 2

ExtractLeads == {"", "Check all that apply:\n", "Which apply? "}

ExtractLabels ==
  {"Shelters", "Food bank", "food  bank", "Food-bank", "Other", "Other (please specify)"}

\* the entries written one per line (sep = "\n") or on one line (sep = " ")
MethodOf(lead, labels, sep) ==
  lead \o Join([i \in 1..Len(labels) |-> GLYPH \o " " \o labels[i]], sep)

ExtractMethods ==
  {MethodOf(lead, labels, sep) :
     lead \in ExtractLeads,
     labels \in UNION {[1..n -> ExtractLabels] : n \in 0..MaxOptions},
     sep \in {"\n", " "}}

\* a method text of one glyph line per label
RebuiltMethod(options) == MethodOf("", [i \in 1..Len(options) |-> options[i].label], "\n")

OptionValues(options) == [i \in 1..Len(options) |-> options[i].value]

InitExtract ==
  /\ InitApp
  /\ call \in {[fn |-> f, method |-> m] :
                 f \in {"extractCheckboxOptions", "extractCheckboxOptionsFromMethod"},
                 m \in ExtractMethods}
  /\ result = NoResult

CallExtractCheckboxOptions ==
  /\ call.fn = "extractCheckboxOptions"
  /\ ~result.done
  /\ LET options == extractCheckboxOptions(call.method)
     IN result' = Done([options |-> options,
                        again |-> extractCheckboxOptions(RebuiltMethod(options))])
  /\ UNCHANGED <<appState, call>>

CallExtractCheckboxOptionsFromMethod ==
  /\ call.fn = "extractCheckboxOptionsFromMethod"
  /\ ~result.done
  /\ LET options == extractCheckboxOptionsFromMethod(call.method)
     IN result' = Done([options |-> options,
                        again |-> extractCheckboxOptionsFromMethod(RebuiltMethod(options))])
  /\ UNCHANGED <<appState, call>>

NextExtract == CallExtractCheckboxOptions \/ CallExtractCheckboxOptionsFromMethod

SpecExtract == InitExtract /\ [][NextExtract]_vars

\* the formulas of the turnover group (lines 223-234), each applied to the
\* responses of the three input fields, staff counts up to MaxStaff
MaxStaff == 4

TurnoverFormulaKeys == {"averageStaff", "turnoverRate"}

InitFormula ==
  /\ InitApp
  /\ call \in {[fn |-> "formula", key |-> k,
                 data |-> [staffAtStart |-> Num(s), staffAtEnd |-> Num(e),
                           staffLeft |-> Num(l)]] :
                 k \in TurnoverFormulaKeys,
                 s \in 0..MaxStaff, e \in 0..MaxStaff, l \in 0..MaxStaff}
  /\ result = NoResult

CallFormula ==
  /\ call.fn = "formula"
  /\ ~result.done
  /\ result' = Done(EvalFormula(call.key, call.data))
  /\ UNCHANGED <<appState, call>>

SpecFormula == InitFormula /\ [][CallFormula]_vars

\* determineTier(indicator, method) over texts whose keywords overlap
TierIndicators ==
  {"Staff Turnover Rate", "Staff outcomes", "Core FUNDING ratio and impact",
   "Board leadership", "Coalition policy work", "Client Satisfaction",
   "Training impact", "Governance review", "Advocacy outcomes", "Professional",
   "Clients housed", ""}

TierMethods ==
  {"", "Count staff at start and end", "Measure turnover and advocacy",
   "Minutes of each board meeting", "Feedback forms on policy",
   "development plans", "Impact survey", "Percentage of clients housed",
   "Ratio of core to project amounts"}

InitTier ==
  /\ InitApp
  /\ call \in {[fn |-> "determineTier", indicator |-> i, method |-> m] :
                 i \in TierIndicators, m \in TierMethods}
  /\ result = NoResult

CallDetermineTier ==
  /\ call.fn = "determineTier"
  /\ ~result.done
  /\ result' = Done(determineTier(call.indicator, call.method))
  /\ UNCHANGED <<appState, call>>

SpecTier == InitTier /\ [][CallDetermineTier]_vars

(***************************************************************************)
(* The session with the scheduling the code guarantees: a parse that was   *)
(* started calls back.  Nothing obliges the user to act.                   *)
(***************************************************************************)
Fairness ==
  /\ WF_vars(\E f \in FileIds : parseComplete(f))
  /\ WF_vars(\E f \in FileIds : parseError(f))

FairSpec == Spec /\ Fairness

(***************************************************************************)
(* Properties.                                                             *)
(***************************************************************************)
\* whether some header of the row names the indicator column
HasIndicatorHeader(row) ==
  \E i \in 1..Len(row) :
     \/ Includes(ToLowerCase(row[i][1]), "indicator")
     \/ Includes(ToLowerCase(row[i][1]), "outcome")
     \/ Includes(ToLowerCase(row[i][1]), "measure")

\* the indicator text of a row is missing, empty or white space
BlankIn(row, col) ==
  \/ Get(row, col).kind = "undefined"
  \/ \A i \in 1..Len(Get(row, col).str) : IsSpace(CharAt(Get(row, col).str, i))

CompileDone ==
  call.fn = "generateStandardizedFields" /\ result.done

\* C1: for a non-empty row set with a resolvable indicator column, compile
\* returns exactly one indicator per row whose indicator text is not blank,
\* in row order (the k-th indicator carries the trimmed text and the position
\* of the k-th such row), and no two fields of the result share an id.
C1_OneIndicatorPerRow ==
  (CompileDone /\ Len(call.rows) > 0 /\ HasIndicatorHeader(call.rows[1])) =>
    LET col == indicatorCol(call.rows[1]).str
        kept == Sorted({i \in 1..Len(call.rows) : ~BlankIn(call.rows[i], col)})
        out == result.out
        fields == AllFields(out.value)
    IN /\ ~out.threw
       /\ Len(out.value) = Len(kept)
       /\ \A k \in 1..Len(kept) :
            /\ out.value[k].title = Trim(Get(call.rows[kept[k]], col).str)
            /\ out.value[k].id = "indicator_" \o ToString(kept[k] - 1)
       /\ \A i, j \in 1..Len(fields) : i # j => fields[i].id # fields[j].id

\* C1 witness: a blank row is skipped and the row after it yields the five
\* fields of a turnover group
C1_Witness ==
  /\ CompileDone
  /\ Len(call.rows) = 2
  /\ HasIndicatorHeader(call.rows[1])
  /\ BlankIn(call.rows[1], indicatorCol(call.rows[1]).str)
  /\ ~result.out.threw
  /\ Len(result.out.value) = 1
  /\ result.out.value[1].id = "indicator_1"
  /\ Len(result.out.value[1].fields) = 5

\* C2: when the indicator text matches neither the turnover nor the funding
\* rule and the method text holds both a "(Yes/No)" and a "Check all that
\* apply" marker, createFieldConfig returns a multi_part config.
C2_MultiPartWins ==
  (/\ call.fn = "createFieldConfig"
   /\ result.done
   /\ ~Includes(ToLowerCase(call.name), "turnover")
   /\ ~Includes(ToLowerCase(call.name), "retention")
   /\ ~(Includes(ToLowerCase(call.name), "funding")
        /\ (Includes(ToLowerCase(call.name), "ratio")
            \/ Includes(ToLowerCase(call.name), "core")))
   /\ Includes(call.method, "(Yes/No)")
   /\ Includes(call.method, "Check all that apply"))
  => result.out.type = "multi_part"

ScoreDone == call.fn = "calculateCompletionScore" /\ result.done

\* the ids of the fields a user fills, and of those that have an answer
FillableIds(inds) ==
  {AllFields(inds)[i].id : i \in {k \in 1..Len(AllFields(inds)) :
                                    AllFields(inds)[k].type # CALCULATED}}

AnsweredIds(inds, store) ==
  {id \in FillableIds(inds) :
     /\ id \in DOMAIN store
     /\ store[id].kind \notin {"null", "undefined"}
     /\ store[id] # Str("")}

\* C3: every CALCULATED field compile produces has required = false, and
\* the score counts, in total and in completed, only the other fields, a
\* field being completed exactly when a response is stored for its id that
\* is not null and not the empty string (0, false and "0" count); so a
\* turnover indicator whose three inputs are answered scores 3 of 3, 100%,
\* whatever is stored for the calculated ids.
C3_CalculatedNeverCounted ==
  ScoreDone =>
    LET inds == result.out.indicators
        score == result.out.score
        fields == AllFields(inds)
    IN /\ \A i \in 1..Len(fields) :
            fields[i].type = CALCULATED => fields[i].required = FALSE
       /\ score.total = Cardinality(FillableIds(inds))
       /\ score.completed = Cardinality(AnsweredIds(inds, call.store))
       /\ \A id \in FillableIds(inds) :
            (id \in DOMAIN call.store
             /\ call.store[id] \in {Num(0), Bool(FALSE), Str("0")})
            => id \in AnsweredIds(inds, call.store)
       /\ (call.rows = <<TurnoverRow>>
           /\ \A key \in {"staffAtStart", "staffAtEnd", "staffLeft"} :
                IsAnswered(Lookup(call.store, "indicator_0_" \o key)))
          => score = [percentage |-> 100, completed |-> 3, total |-> 3]

\* C3 witness: a turnover indicator answered with 0, "0" and false, with a
\* value stored for a calculated id as well, scores 3 of 3
C3_Witness ==
  /\ ScoreDone
  /\ call.rows = <<TurnoverRow>>
  /\ Lookup(call.store, "indicator_0_staffAtStart") = Num(0)
  /\ Lookup(call.store, "indicator_0_staffAtEnd") = Str("0")
  /\ Lookup(call.store, "indicator_0_staffLeft") = Bool(FALSE)
  /\ Lookup(call.store, "indicator_0_turnoverRate") = Num(7)
  /\ "indicator_0_averageStaff" \notin DOMAIN call.store
  /\ result.out.score = [percentage |-> 100, completed |-> 3, total |-> 3]

\* C4: the completion score has 0 <= completed <= total and a percentage in
\* 0..100 that is 0 when total is 0; the data quality scores are each in
\* 0..100 and 0 when their denominator (the number of records, or of
\* completed records for standardization) is 0.
C4_ScoresInRange ==
  /\ ScoreDone =>
       /\ 0 <= result.out.score.completed
       /\ result.out.score.completed <= result.out.score.total
       /\ result.out.score.percentage \in 0..100
       /\ result.out.score.total = 0 => result.out.score.percentage = 0
  /\ (call.fn = "calculateDataQuality" /\ result.done) =>
       LET records == call.records
           completed == {k \in DOMAIN records :
                           records[k].value.kind \notin {"null", "undefined"}
                           /\ records[k].value # Str("")}
       IN /\ result.out.completeness \in 0..100
          /\ result.out.standardization \in 0..100
          /\ result.out.overallScore \in 0..100
          /\ DOMAIN records = {} =>
               result.out.completeness = 0 /\ result.out.overallScore = 0
          /\ completed = {} => result.out.standardization = 0

\* C4 witness: three records, two completed, one of them of a structured
\* type: 67, 50 and 53
C4_Witness ==
  /\ call.fn = "calculateDataQuality"
  /\ result.done
  /\ Cardinality(DOMAIN call.records) = 3
  /\ result.out = [completeness |-> 67, standardization |-> 50,
                   overallScore |-> 53]

\* C5: whenever isComplete is true, every field that is not CALCULATED, of
\* every indicator, has a response that is present and not empty.
C5_CompleteMeansAllAnswered ==
  isComplete =>
    \A i \in 1..Len(indicators) :
      \A k \in 1..Len(indicators[i].fields) :
        indicators[i].fields[k].type # CALCULATED
        => IsAnswered(Lookup(responses, indicators[i].fields[k].id))

\* C6: in the report, the value of every field is the response stored for
\* its id, null only when none is stored; so the fields that are not
\* CALCULATED and have a value that is not null number completionScore's
\* completed.
C6_ReportValuesRaw ==
  ~download.isNull =>
    /\ \A i \in 1..Len(download.indicators) :
         \A k \in 1..Len(download.indicators[i].responses) :
           LET r == download.indicators[i].responses[k]
           IN IF r.id \in DOMAIN responses THEN r.value = responses[r.id]
              ELSE r.value = Null
    /\ download.completionScore.completed =
         Cardinality({<<i, k>> \in (1..Len(download.indicators)) \X (1..5) :
            /\ k <= Len(download.indicators[i].responses)
            /\ download.indicators[i].responses[k].type # CALCULATED
            /\ download.indicators[i].responses[k].value # Null})

\* the data of an indicator's formulas: the responses of its fields by key
SiblingData(indicator, store) ==
  LET keyOf(id) == SubstringFrom(id, Len(indicator.id) + 1)
  IN [key \in {keyOf(indicator.fields[k].id) : k \in
                 {n \in 1..Len(indicator.fields) :
                    indicator.fields[n].id \in DOMAIN store}}
        |-> store[FieldId(indicator.id, key)]]

\* the indicators with calculated fields whose inputs all have responses
CalculatedReady ==
  {i \in 1..Len(indicators) :
     /\ \E k \in 1..Len(indicators[i].fields) :
          indicators[i].fields[k].type = CALCULATED
     /\ \A k \in 1..Len(indicators[i].fields) :
          indicators[i].fields[k].type # CALCULATED
          => IsAnswered(Lookup(responses, indicators[i].fields[k].id))}

\* every calculated field of such an indicator holds and shows its value
CalculatedShown ==
  \A i \in CalculatedReady :
    \A k \in 1..Len(indicators[i].fields) :
      indicators[i].fields[k].type = CALCULATED =>
        LET value == EvalFormula(indicators[i].fields[k].formula,
                                 SiblingData(indicators[i], responses))
        IN /\ Lookup(responses, indicators[i].fields[k].id) = value
           /\ CalculatedDisplay(responses, indicators[i].fields[k]) = value

\* C7: once all inputs of a calculated group have responses, its CALCULATED
\* fields eventually hold and show the value of their formula on those
\* inputs.
C7_CalculatedEventuallyShown ==
  (MainScreen /\ CalculatedReady # {}) ~> (CalculatedReady # {} /\ CalculatedShown)

\* the state an upload of rows must leave
Replaced(rows) ==
  /\ indicators' = generateStandardizedFields(rows).value
  /\ responses' = EmptyStore
  /\ currentIndicator' = 0
  /\ isComplete' = FALSE

\* C8 as stated: after every upload whose parse delivers a non-empty row
\* set the indicators are compile(rows), the store is empty,
\* currentIndicator is 0 and isComplete is false; and only an upload
\* changes the indicators.
C8_UploadReplaces ==
  [][/\ \A f \in FileIds :
          (parseComplete(f) /\ Len(Files[f].errors) = 0 /\ Len(Files[f].data) > 0)
          => Replaced(Files[f].data)
     /\ indicators' # indicators => \E f \in FileIds : parseComplete(f)]_vars

\* C8, amended: the same for every upload whose parse delivers, without
\* errors, a non-empty row set that has a resolvable indicator column.
C8_CompiledUploadReplaces ==
  [][/\ \A f \in FileIds :
          (/\ parseComplete(f)
           /\ Len(Files[f].errors) = 0
           /\ Len(Files[f].data) > 0
           /\ HasIndicatorHeader(Files[f].data[1]))
          => Replaced(Files[f].data)
     /\ indicators' # indicators => \E f \in FileIds : parseComplete(f)]_vars

\* C8 witness: an upload has compiled its rows and left an empty store
\* while another parse is still in flight
C8_Witness ==
  /\ MainScreen
  /\ csvData.rows = WorkplanRows
  /\ indicators = generateStandardizedFields(WorkplanRows).value
  /\ Len(indicators) = 2
  /\ responses = EmptyStore
  /\ currentIndicator = 0
  /\ ~isComplete
  /\ parsing = {2}

\* C9: the response stored for a PERCENTAGE field lies in 0..100, and the
\* responses stored for NUMBER and CURRENCY fields are not negative.
C9_RangeValidated ==
  \A i \in 1..Len(indicators) :
    \A k \in 1..Len(indicators[i].fields) :
      LET field == indicators[i].fields[k]
      IN field.id \in DOMAIN responses =>
           /\ field.type = PERCENTAGE =>
                (IsNumber(responses[field.id])
                 /\ responses[field.id].num \in 0..100)
           /\ field.type \in {NUMBER, CURRENCY} =>
                (IsNumber(responses[field.id]) /\ responses[field.id].num >= 0)

\* C10: compile fails exactly when the row set is not empty and no header
\* of its first row contains "indicator", "outcome" or "measure" in any
\* case; the failure returns no indicators and its message names every
\* header; a row set without a method or notes column compiles, with empty
\* method text and description.
C10_MissingColumnError ==
  CompileDone =>
    LET rows == call.rows
        out == result.out
    IN /\ out.threw <=> (Len(rows) > 0 /\ ~HasIndicatorHeader(rows[1]))
       /\ out.threw =>
            /\ out.value = <<>>
            /\ StartsWith(out.message, "No indicator column found")
            /\ \A i \in 1..Len(rows[1]) : Includes(out.message, rows[1][i][1])
       /\ (Len(rows) > 0 /\ HasIndicatorHeader(rows[1])
           /\ \A i \in 1..Len(rows[1]) :
                ~IsMethodKey(rows[1][i][1]) /\ ~IsNotesKey(rows[1][i][1]))
          => /\ ~out.threw
             /\ \A k \in 1..Len(out.value) :
                  /\ out.value[k].description = ""
                  /\ \A n \in 1..Len(out.value[k].fields) :
                       "description" \in DOMAIN out.value[k].fields[n]
                       => out.value[k].fields[n].description = ""

\* C10 witness: a row set headed Name, Method, Notes fails, and the message
\* lists the three headers
C10_Witness ==
  /\ CompileDone
  /\ Len(call.rows) = 2
  /\ result.out.threw
  /\ result.out.message =
       "No indicator column found. Available columns: Name, Method, Notes"

\* the same rows with the columns listed in the opposite order
ReverseColumns(rows) ==
  [i \in 1..Len(rows) |->
     [k \in 1..Len(rows[i]) |-> rows[i][Len(rows[i]) + 1 - k]]]

\* C11: compile resolves the same indicator, method and notes columns and
\* returns the same indicators for a row set and for the same row set with
\* its columns listed in another order.
C11_ColumnOrderFree ==
  CompileDone =>
    LET other == ReverseColumns(call.rows)
    IN /\ Len(call.rows) > 0 =>
            /\ indicatorCol(other[1]) = indicatorCol(call.rows[1])
            /\ methodCol(other[1]) = methodCol(call.rows[1])
            /\ notesCol(other[1]) = notesCol(call.rows[1])
       /\ generateStandardizedFields(other).threw = result.out.threw
       /\ generateStandardizedFields(other).value = result.out.value

ClassifyDone == call.fn = "createFieldConfig" /\ result.done

\* no rule 1-12 of the decision policy matches the lower-cased texts
NoRuleMatches(indicatorText, methodText) ==
  LET name == ToLowerCase(indicatorText)
      method == ToLowerCase(methodText)
      has(s, words) == \E w \in words : Includes(s, w)
  IN /\ ~has(name, {"turnover", "retention"})
     /\ ~(has(name, {"funding"}) /\ has(name, {"ratio", "core"}))
     /\ ~has(method, {"yes/no", "(yes / no)"})
     /\ ~has(method, {"check all that apply", GLYPH})
     /\ ~(has(method, {"difficult"}) /\ has(method, {"options:"}))
     /\ ~(has(name, {"satisfaction"}) \/ has(method, {"satisfied"}))
     /\ ~(has(name, {"board"}) /\ has(name, {"compensation"}))
     /\ ~has(name, {"collaboration", "coalition"})
     /\ ~has(method, {"how many", "number of"})
     /\ ~has(method, {"percentage", "%"})

ConfigTypes ==
  {"calculated_group", "multi_part", NUMBER, CURRENCY, PERCENTAGE, SCALE,
   RADIO, CHECKBOX, TEXT_SHORT}

\* C12: createFieldConfig returns a config for every pair of strings, the
\* empty ones included; when no rule 1-12 matches, the config is the
\* fallback: TEXT_SHORT, maxLength 100, with the advisory warning.
C12_ClassifyTotal ==
  ClassifyDone =>
    /\ "type" \in DOMAIN result.out
    /\ result.out.type \in ConfigTypes
    /\ NoRuleMatches(call.name, call.method) =>
         /\ result.out.type = TEXT_SHORT
         /\ "maxLength" \in DOMAIN result.out
         /\ result.out.maxLength = 100
         /\ "warning" \in DOMAIN result.out
         /\ Includes(result.out.warning, "structured data")

\* C12 witness: two empty strings are classified, by the fallback
C12_Witness ==
  /\ ClassifyDone
  /\ call.name = ""
  /\ call.method = ""
  /\ result.out.type = TEXT_SHORT
  /\ result.out.maxLength = 100

CalcDone == call.fn \in BinaryCalculations /\ result.done

\* the integer nearest to the exact quotient 100 * n / d, a half going up
ExactPercent(n, d) == (200 * n + d) \div (2 * d)

\* C13: for non-negative integer operands with a positive denominator,
\* turnoverRate and corePercentage return round(n / d * 100) and
\* fundingRatio returns round(n / d * 100) / 100; turnoverRate(3, 11) = 27,
\* fundingRatio(75000, 150000) = 0.5, corePercentage(150000, 225000) = 67.
C13_RatesRounded ==
  (/\ CalcDone
   /\ call.fn \in {"turnoverRate", "fundingRatio", "corePercentage"}
   /\ IsNumber(call.a) /\ call.a.num >= 0
   /\ IsNumber(call.b) /\ call.b.num > 0
   /\ call.a.num < 10000000)
  => result.out = (IF call.fn = "fundingRatio"
                   THEN Hundredths(ExactPercent(call.a.num, call.b.num))
                   ELSE Num(ExactPercent(call.a.num, call.b.num)))

\* a number other than NaN (no calculation of the model overflows to Infinity)
IsFinite(v) == v.kind = "number" /\ v.str # "NaN"

\* the operand is missing (undefined, null, NaN) or zero
ZeroOrMissing(v) == ~IsNumber(v) \/ v.num = 0

\* C14: every calculation function returns 0 when its denominator is zero
\* or missing (for average: when no value is valid), and returns a finite
\* number, never NaN or undefined, for every combination of present, zero
\* or missing operands.
C14_CalcDefined ==
  result.done =>
    /\ IsFinite(result.out)
    /\ (call.fn \in BinaryCalculations /\ ZeroOrMissing(call.b)) => result.out = Num(0)
    /\ (call.fn = "average" /\ \A i \in 1..Len(call.values) : ~IsNumber(call.values[i]))
         => result.out = Num(0)

Abs(n) == IF n < 0 THEN -n ELSE n

\* the integer nearest to the exact quotient 100 * n / d, a half going away
\* from zero
HalfAwayPercent(n, d) ==
  LET q == (200 * Abs(n) + Abs(d)) \div (2 * Abs(d))
  IN IF (n < 0) # (d < 0) THEN -q ELSE q

\* the numerator and the denominator of the quotient a finished call rounds
CallNumerator ==
  CASE call.fn = "growthRate" -> call.a.num - call.b.num
    [] call.fn = "average" -> SumFrom(call.values, 1)
    [] OTHER -> call.a.num

CallDenominator == IF call.fn = "average" THEN Len(call.values) ELSE call.b.num

CallIsNumeric ==
  IF call.fn = "average"
  THEN Len(call.values) > 0 /\ \A i \in 1..Len(call.values) : IsNumber(call.values[i])
  ELSE IsNumber(call.a) /\ IsNumber(call.b) /\ call.b.num # 0

\* C15: the calculation functions round half away from zero at their
\* precision also when the exact quotient is negative: growthRate with
\* (current - previous) / previous * 100 = -1.5 returns -2, and an average
\* whose mean is a negative odd multiple of 0.005 rounds away from zero.
C15_HalfAwayFromZero ==
  (/\ result.done
   /\ CallIsNumeric
   /\ Abs(CallNumerator) < 10000000
   /\ (CallNumerator < 0) # (CallDenominator < 0))
  => result.out = (IF call.fn \in {"fundingRatio", "average"}
                   THEN Hundredths(HalfAwayPercent(CallNumerator, CallDenominator))
                   ELSE Num(HalfAwayPercent(CallNumerator, CallDenominator)))

DetectDone == call.fn = "detectOrganization" /\ result.done

\* the text holds the code at some position, letter case aside
HoldsCode(text, code) ==
  \E i \in 1..Len(text) :
     i + Len(code) - 1 <= Len(text)
     /\ ToUpperCase(SubSeq(text, i, i + Len(code) - 1)) = code

\* the catalog positions of the codes that occur in the row data
CodesIn(rows) ==
  {i \in 1..Len(organizations) : HoldsCode(JsonStringify(rows), organizations[i].code)}

\* C16: detectOrganization returns null for an empty row set; for a
\* non-empty one it returns the catalog entry of the first code, in the
\* order VFWC, WAWC, VCWS, CWWA, YWCA, that occurs in the serialized rows
\* whatever its letter case, and the generic Organization/ORG entry when no
\* code occurs.
C16_FirstCodeDetected ==
  DetectDone =>
    /\ <<organizations[1].code, organizations[2].code, organizations[3].code,
          organizations[4].code, organizations[5].code>>
         = <<"VFWC", "WAWC", "VCWS", "CWWA", "YWCA">>
    /\ (Len(call.rows) = 0) <=> result.out.isNull
    /\ (Len(call.rows) > 0 /\ CodesIn(call.rows) # {})
         => result.out = Org(organizations[Min(CodesIn(call.rows))])
    /\ (Len(call.rows) > 0 /\ CodesIn(call.rows) = {})
         => result.out = [isNull |-> FALSE, name |-> "Organization", code |-> "ORG"]

\* a later row names WAWC in mixed case after an earlier catalog miss, and
\* the entry found is WAWC's although CWWA occurs first in the text
C16_Witness ==
  /\ DetectDone
  /\ Len(call.rows) = MaxDetectRows
  /\ CodesIn(call.rows) = {2, 4}
  /\ result.out.code = "WAWC"
  /\ result.out.name = "Women's Action Women's Centre"

CompileReturned == CompileDone /\ ~result.out.threw

\* the fields of the compiled indicators that carry an options list
FieldsWithOptions ==
  LET fields == AllFields(result.out.value)
  IN {fields[i] : i \in {j \in 1..Len(fields) : "options" \in DOMAIN fields[j]}}

\* C17: in every indicator compile produces, a field's options list is
\* non-empty and no two of its options have the same value, also for
\* options extracted from the checkbox lines of the method.
C17_OptionValuesUnique ==
  CompileReturned =>
    \A field \in FieldsWithOptions :
       /\ Len(field.options) > 0
       /\ \A i, j \in 1..Len(field.options) :
             field.options[i].value = field.options[j].value => i = j

ValidateDone == call.fn \in ValidationRuleNames /\ result.done

\* the number the value stands for lies in [lo, hi] (hi < lo: no upper end)
InRange(v, lo, hi) ==
  /\ ~IsNaN(Operand(v))
  /\ InHundredths(Operand(v)) >= 100 * lo
  /\ (hi >= lo => InHundredths(Operand(v)) <= 100 * hi)

\* C18: a validation rule returns null or a message; percentage returns
\* null exactly for 0 <= v <= 100, currency exactly for v >= 0, staffCount
\* exactly for the non-negative whole numbers, and required returns a
\* message exactly for null, undefined and the empty string.
C18_RulesAcceptValidRange ==
  ValidateDone =>
    /\ result.out = Null \/ (result.out.kind = "string" /\ result.out.str # "")
    /\ call.fn = "percentage" => (result.out = Null <=> InRange(call.value, 0, 100))
    /\ call.fn = "currency" => (result.out = Null <=> InRange(call.value, 0, -1))
    /\ call.fn = "staffCount"
         => (result.out = Null <=> (IsNumber(call.value) /\ call.value.num >= 0))
    /\ call.fn = "required"
         => (result.out # Null <=> call.value \in {Null, Undefined, Str("")})

\* the step sets one entry of the response store and keeps the others
SetsOneResponse ==
  \E id \in DOMAIN responses' : responses' = (id :> responses'[id]) @@ responses

\* the step builds a report
BuildsReport == download' # download /\ ~download'.isNull

ExtractDone ==
  call.fn \in {"extractCheckboxOptions", "extractCheckboxOptionsFromMethod"}
  /\ result.done

\* C20: extracting the checkbox options of a method text, rebuilding a
\* glyph-delimited text of the labels found and extracting again yields the
\* same sequence of option values.
C20_ExtractionIdempotent ==
  (ExtractDone /\ result.out.options \notin {collaborationTypes, employeeBenefits})
  => OptionValues(result.out.again) = OptionValues(result.out.options)

\* the predicate of rule i of the decision policy, on the texts as given
\* (substring tests that ignore letter case)
RuleSatisfied(i, indicatorText, methodText) ==
  LET name == ToLowerCase(indicatorText)
      method == ToLowerCase(methodText)
      has(s, words) == \E w \in words : Includes(s, w)
  IN CASE i = 1 -> has(name, {"turnover", "retention"})
       [] i = 2 -> has(name, {"funding"}) /\ has(name, {"ratio", "core"})
       [] i = 3 -> has(method, {"(yes/no)"}) /\ has(method, {"check all that apply"})
       [] i = 4 -> has(name, {"wellness", "benefit"})
                   /\ has(method, {"check all that apply"})
       [] i = 5 -> has(method, {"yes/no", "(yes / no)"})
       [] i = 6 -> has(method, {"check all that apply", GLYPH})
       [] i = 7 -> has(method, {"difficult"}) /\ has(method, {"options:"})
       [] i = 8 -> has(name, {"satisfaction"}) \/ has(method, {"satisfied"})
       [] i = 9 -> has(name, {"board"}) /\ has(name, {"compensation"})
       [] i = 10 -> has(name, {"collaboration", "coalition"})
       [] i = 11 -> has(method, {"how many", "number of"})
       [] i = 12 -> has(method, {"percentage", "%"})
       [] OTHER -> TRUE

\* the lowest-numbered rule whose predicate holds (13: the fallback)
FirstRule(indicatorText, methodText) ==
  Min({i \in 1..13 : RuleSatisfied(i, indicatorText, methodText)})

\* the config is the one rule i returns
IsConfigOfRule(i, config, methodText) ==
  CASE i = 1 -> config.type = "calculated_group"
                /\ config.fields[1].key = "staffAtStart"
    [] i = 2 -> config.type = "calculated_group"
                /\ config.fields[1].key = "coreFunding"
    [] i = 3 -> config.type = "multi_part"
    [] i = 4 -> config.type = CHECKBOX /\ config.options = employeeBenefits
    [] i = 5 -> config.type = RADIO /\ config.options = yesNo
    [] i = 6 -> config.type = CHECKBOX
                /\ config.options \notin {employeeBenefits, boardCompensation}
    [] i = 7 -> config.type = RADIO /\ config.options = difficulty
    [] i = 8 -> config.type = SCALE /\ config.scale = satisfactionScale
    [] i = 9 -> config.type = CHECKBOX /\ config.options = boardCompensation
    [] i = 10 -> IF Includes(ToLowerCase(methodText), "how many")
                 THEN config.type = NUMBER
                 ELSE config.type = CHECKBOX /\ config.options = collaborationTypes
    [] i = 11 -> config.type = NUMBER
    [] i = 12 -> config.type = PERCENTAGE
    [] OTHER -> config.type = TEXT_SHORT

\* C21: createFieldConfig returns the config of the lowest-numbered rule of
\* the decision policy whose predicate the texts satisfy: turnover in the
\* indicator wins over every method text, yes/no wins over "how many", a
\* collaboration indicator with "%" in the method yields CHECKBOX.
C21_FirstMatchWins ==
  ClassifyDone =>
    IsConfigOfRule(FirstRule(call.name, call.method), result.out, call.method)

\* C22: for an indicator text that holds "wellness" or "benefit" and
\* matches neither rule 1 nor rule 2, and a method text that holds "Check
\* all that apply" and no "(Yes/No)" marker, createFieldConfig returns a
\* CHECKBOX config over the employee-benefits catalog.
C22_WellnessCatalog ==
  (/\ ClassifyDone
   /\ ~RuleSatisfied(1, call.name, call.method)
   /\ ~RuleSatisfied(2, call.name, call.method)
   /\ \/ Includes(ToLowerCase(call.name), "wellness")
      \/ Includes(ToLowerCase(call.name), "benefit")
   /\ Includes(call.method, "Check all that apply")
   /\ ~Includes(call.method, "(Yes/No)"))
  => /\ result.out.type = CHECKBOX
     /\ result.out.options = employeeBenefits

\* the options the glyph-delimited segments of a method text stand for
SegmentOptions(methodText) ==
  LET segments == Tail(Split(methodText, GLYPH))
      labels == [i \in 1..Len(segments) |-> Trim(segments[i])]
      kept == Sorted({i \in 1..Len(labels) :
                        labels[i] # "" /\ labels[i] # "Other (please specify)"})
  IN [k \in 1..Len(kept) |->
        Opt(Str(SlugRuns(ToLowerCase(labels[kept[k]]))), labels[kept[k]])]

\* C23: under the generic checkbox rule the options are those of the
\* segments between the checkbox glyphs of the method text (label: the
\* trimmed segment, value: the lower-cased label with every run of other
\* than letters and digits turned into one underscore), followed by the
\* option other / "Other (specify)"; the collaboration-types catalog is
\* used exactly when no segment gives an option.
C23_OptionsFromSegments ==
  (ClassifyDone /\ FirstRule(call.name, call.method) = 6)
  => /\ result.out.type = CHECKBOX
     /\ result.out.options =
          (IF Len(SegmentOptions(call.method)) > 0
           THEN Append(SegmentOptions(call.method), Opt(Str("other"), "Other (specify)"))
           ELSE collaborationTypes)

FormulaDone == call.fn = "formula" /\ result.done

\* round((start + end) / 2) of the responses of the call
AverageOfCall == (call.data.staffAtStart.num + call.data.staffAtEnd.num + 1) \div 2

\* C24: over the responses start, end and left of a turnover group the
\* formula of averageStaff yields round((start + end) / 2), and the
\* formula of turnoverRate yields round(left / averageStaff * 100) for
\* that average, 0 when the average is 0.
C24_TurnoverFromAverage ==
  FormulaDone =>
    /\ call.key = "averageStaff" => result.out = Num(AverageOfCall)
    /\ call.key = "turnoverRate" =>
         result.out = (IF AverageOfCall = 0 THEN Num(0)
                       ELSE Num(ExactPercent(call.data.staffLeft.num, AverageOfCall)))

TierDone == call.fn = "determineTier" /\ result.done

\* the text of the call, letter case aside, holds the word
TierText(word) == Includes(ToLowerCase(call.indicator \o " " \o call.method), word)

MatchesTier1 ==
  \/ TierText("staff") /\ TierText("turnover")
  \/ TierText("funding") /\ (TierText("core") \/ TierText("ratio"))
  \/ TierText("board") /\ TierText("meeting")

MatchesTier2 ==
  \E w \in {"collaboration", "coalition", "satisfaction", "feedback", "training",
             "professional development"} : TierText(w)

MatchesTier3 ==
  \E w \in {"outcome", "impact", "policy", "advocacy", "leadership",
             "governance"} : TierText(w)

\* C25: determineTier returns a tier in {1, 2, 3} for every pair of texts:
\* 1 when a tier-1 keyword set matches, whatever else matches; 2 when a
\* tier-2 set and no tier-1 set matches, tier-3 keywords or not; 3 when
\* only a tier-3 set matches; 2 when no set matches.
C25_TierFirstMatch ==
  TierDone =>
    /\ result.out \in {1, 2, 3}
    /\ MatchesTier1 => result.out = 1
    /\ (~MatchesTier1 /\ MatchesTier2) => result.out = 2
    /\ (~MatchesTier1 /\ ~MatchesTier2 /\ MatchesTier3) => result.out = 3
    /\ (~MatchesTier1 /\ ~MatchesTier2 /\ ~MatchesTier3) => result.out = 2

\* a text with a tier-2 and a tier-3 keyword and no tier-1 set got tier 2
C25_Witness ==
  /\ TierDone
  /\ ~MatchesTier1
  /\ MatchesTier2
  /\ MatchesTier3
  /\ result.out = 2

\* the ids of the indicators of the result
EmittedIds == {result.out.value[k].id : k \in 1..Len(result.out.value)}

\* C26: a row whose indicator text is missing, empty or white space is left
\* out of the result and raises no error, and the other rows keep the ids
\* of their positions: the indicator of the row at zero-based position i
\* has the id indicator_<i>, skipped rows counted, and the id of each of
\* its fields starts with that id and an underscore.
C26_SkippedRowsKeepIds ==
  (CompileDone /\ Len(call.rows) > 0 /\ HasIndicatorHeader(call.rows[1])) =>
    LET col == indicatorCol(call.rows[1]).str
    IN /\ ~result.out.threw
       /\ \A i \in 1..Len(call.rows) :
            ("indicator_" \o ToString(i - 1)) \in EmittedIds
            <=> ~BlankIn(call.rows[i], col)
       /\ \A k \in 1..Len(result.out.value) :
            LET ind == result.out.value[k]
            IN /\ \E i \in 1..Len(call.rows) : ind.id = "indicator_" \o ToString(i - 1)
               /\ Len(ind.fields) > 0
               /\ \A f \in 1..Len(ind.fields) :
                    StartsWith(ind.fields[f].id, ind.id \o "_")

\* the first row has a white-space indicator text and is left out; the
\* second is emitted under the id of its position, 1
C26_Witness ==
  /\ CompileDone
  /\ Len(call.rows) = 2
  /\ HasIndicatorHeader(call.rows[1])
  /\ Get(call.rows[1], indicatorCol(call.rows[1]).str) = Str("  ")
  /\ EmittedIds = {"indicator_1"}
  /\ \E f \in 1..Len(result.out.value[1].fields) :
        result.out.value[1].fields[f].id = "indicator_1_main"

\* the step is a completion callback whose catch block reports that
\* generateStandardizedFields threw
CompileRejected ==
  parsing' # parsing /\ StartsWith(alerted', "Error processing CSV file: ")

\* C27: when generateStandardizedFields throws for the rows of an upload,
\* the callback leaves csvData, organization, indicators, responses,
\* currentIndicator and isComplete as they were before it.
C27_RejectedUploadAtomic ==
  [][CompileRejected =>
       UNCHANGED <<csvData, organization, indicators, responses,
                   currentIndicator, isComplete>>]_vars

\* the fields of the compiled indicators that count for completion
FillableFields ==
  {AllFields(indicators)[i] : i \in {k \in 1..Len(AllFields(indicators)) :
                                       IsCounted(AllFields(indicators)[k])}}

\* C28: after a successful upload the form offers, for every field that is
\* not CALCULATED, an input whose change event calls handleFieldChange for
\* that field, so that every field can be answered and the completion
\* percentage can reach 100.
C28_EveryFieldHasInput ==
  MainScreen => \A field \in FillableFields : UserValues(field) # {}

\* 0 <= currentIndicator <= max(0, number of indicators - 1)
CurrentIndicatorInRange ==
  /\ currentIndicator \in Nat
  /\ currentIndicator <= Max({0, Len(indicators) - 1})

\* what a step of nextIndicator or prevIndicator does
NavigationStep ==
  /\ nextIndicator =>
       currentIndicator' = (IF currentIndicator = Len(indicators) - 1
                            THEN currentIndicator ELSE currentIndicator + 1)
  /\ prevIndicator =>
       currentIndicator' = (IF currentIndicator = 0
                            THEN currentIndicator ELSE currentIndicator - 1)
  /\ (nextIndicator \/ prevIndicator) =>
       UNCHANGED <<responses, isComplete, indicators>>

\* C29: in every reachable state currentIndicator is an integer between 0
\* and max(0, number of indicators - 1); nextIndicator at the last
\* indicator and prevIndicator at the first leave it as it is, and no
\* navigation step changes responses or isComplete.
C29_NavigationInRange ==
  []CurrentIndicatorInRange /\ [][NavigationStep]_vars

\* the user answered a field and then went on to the last of several
\* indicators
C29_Witness ==
  /\ MainScreen
  /\ Len(indicators) >= 2
  /\ currentIndicator = Len(indicators) - 1
  /\ responses # EmptyStore
  /\ \A id \in DOMAIN responses : StartsWith(id, "indicator_0_")

\* the step is the completion callback of a parse that was in flight
ParseCompletes == parsing' # parsing /\ parsing' \subseteq parsing

\* every response of the store is still in the store after the step
KeepsResponses ==
  \A id \in DOMAIN responses :
     id \in DOMAIN responses' /\ responses'[id] = responses[id]

\* C30: the completion callback of a parse that was started before the
\* user entered responses discards none of them: every response stored by
\* handleFieldChange stays in the store and isComplete is not reset when
\* the callback of the other file selection in flight runs.
C30_LateCallbackKeepsResponses ==
  [][ParseCompletes => (KeepsResponses /\ (isComplete => isComplete'))]_vars
====
